---- MODULE Spec2Model ----
(***************************************************************************)
(* A model of the two algorithmic subsystems of the manga translation      *)
(* pipeline:                                                               *)
(*   - BoxGrouper: group_bounding_boxes / get_group_bounding_box (main.py) *)
(*   - TextFitter: calculate_font_size / break_long_word (text_renderer.py)*)
(* Boxes are 4-tuples <<x_min, y_min, x_max, y_max>> (Python b[0..3] is    *)
(* b[1..4] here).  Texts are sequences of one-character strings.           *)
(***************************************************************************)
EXTENDS Integers, Sequences, FiniteSets, Bags, TLC

VARIABLES
    \* ---- BoxGrouper ----
    boxes,          \* argument of group_bounding_boxes
    y_threshold,    \* argument of group_bounding_boxes
    groups,         \* value returned by group_bounding_boxes
    group_boxes,    \* get_group_bounding_box of every returned group
    gpc,            \* "ready" -> "grouped" -> "boxed"
    \* ---- TextFitter: arguments and environment of calculate_font_size ----
    text,           \* the text to fit
    box_width,
    box_height,
    max_size,
    min_size,
    font,           \* which font get_font() ends up loading
    hashseed,       \* the interpreter's string hash seed (set iteration order)
    \* ---- TextFitter: locals of calculate_font_size ----
    fpc,            \* "ready" -> "loop" -> "done"
    size,           \* the loop variable
    best_size,
    best_wrapped_text,
    sizes_tried,    \* the sizes whose loop body has run, in order
    fit_exit,       \* how the loop was left: "zero_width", "too_tall", "exhausted"
    \* ---- TextRenderer: the calls of render_text in progress ----
    render,         \* per call: its arguments, locals and position
    images,         \* the pixels of every image object
    \* ---- run_translation_pipeline: locals, position and collaborators ----
    ppc,            \* "load" -> "detect" -> "group" -> "ocr"/"translate" -> "finish" -> "done"
    original_image,
    bounding_boxes,
    grouped_boxes,
    group_index,    \* the loop variable i, from 1
    box_index,      \* the loop variable j, from 1
    combined_japanese_text,
    successful_original_boxes,
    translated_data_list,
    returned,       \* the pair the pipeline returned
    calls,          \* the calls made to the collaborators, with their outcomes
    \* ---- translation_module.py: one call of translate_japanese_to_english ----
    tr,             \* the module globals, the argument, the position, the result
    \* ---- gui: one run of a translation worker thread ----
    worker          \* the worker's fields, its position and the signals emitted

gvars == <<boxes, y_threshold, groups, group_boxes, gpc>>

fargs == <<text, box_width, box_height, max_size, min_size, font, hashseed>>

fvars == <<fargs, fpc, size, best_size, best_wrapped_text, sizes_tried, fit_exit>>

rvars == <<render, images>>

pvars == <<ppc, original_image, bounding_boxes, grouped_boxes, group_index,
           box_index, combined_japanese_text, successful_original_boxes,
           translated_data_list, returned, calls>>

xvars == <<tr, worker>>

vars == <<gvars, fvars, rvars, pvars, xvars>>

(***************************************************************************)
(* Bounds of the model.                                                    *)
(***************************************************************************)
MaxY == 3           \* y coordinates range over 0..MaxY
MaxBoxes == 3       \* longest detector box list
MaxThreshold == 1   \* y_threshold ranges over -1..MaxThreshold
MaxTextLen == 3     \* longest input text, in characters
MaxBoxWidth == 4    \* box_width ranges over 1..MaxBoxWidth
MaxBoxHeight == 4   \* box_height ranges over 1..MaxBoxHeight
MaxFontSize == 3    \* max_size ranges over min_size..MaxFontSize
MaxRenderLen == 5   \* longest text given to render_text, in characters
ImageWidth == 8     \* pixel columns 0..ImageWidth-1 of an image
ImageHeight == 6    \* pixel rows 0..ImageHeight-1 of an image

DefaultYThreshold == 50
DefaultPadding == 5     \* render_text(..., padding=5)
DefaultMaxSize == 50    \* calculate_font_size(..., max_size=50, ...)
DefaultMinSize == 10    \* calculate_font_size(..., min_size=10)
OutlineWidth == 2       \* outline_width = 2
INPAINT_PADDING == 10   \* padding of the inpainting mask

(***************************************************************************)
(* Images and the calls of render_text.                                    *)
(***************************************************************************)
\* the calls of render_text that can be in progress at the same time
Procs == {1, 2}

\* the image objects a call can be given
ImageIds == {1, 2}

Pixels == (0..(ImageWidth - 1)) \X (0..(ImageHeight - 1))

\* an image nothing has been drawn on
BlankImage == [px \in Pixels |-> "paper"]

\* the record of a call that has not been made
NoCall ==
    [pc |-> "idle", image_pil |-> 0, text_arg |-> <<>>, translated_text |-> <<>>,
     box_list |-> <<>>, grouped |-> <<>>,
     bounding_box |-> <<0, 0, 0, 0>>, padding |-> 0,
     box_width |-> 0, box_height |-> 0, fit_calls |-> 0,
     font_size |-> 0, wrapped_text |-> <<>>, text_x |-> 0, text_y |-> 0,
     draws |-> <<>>, returned |-> 0]

\* the value None of an optional list, and the list l as an optional list
NoneList == <<>>
ListOf(l) == <<l>>

\* the pipeline is not running
PipeIdle ==
    /\ ppc = "idle" /\ original_image = "None"
    /\ bounding_boxes = <<>> /\ grouped_boxes = <<>>
    /\ group_index = 0 /\ box_index = 0
    /\ combined_japanese_text = <<>> /\ successful_original_boxes = <<>>
    /\ translated_data_list = <<>>
    /\ returned = [image |-> "pending", list |-> NoneList]
    /\ calls = <<>>

\* no call of the translator and no worker run is traced
OthersIdle ==
    /\ tr = [pc |-> "idle"]
    /\ worker = [pc |-> "idle"]

\* the TextRenderer is not in use: no call, and no image is open
RenderIdle ==
    /\ render = [p \in Procs |-> NoCall]
    /\ images = <<>>

(***************************************************************************)
(* Inputs of the BoxGrouper.                                               *)
(***************************************************************************)
XSpans == {<<0, 1>>, <<1, 2>>}

YSpans == {<<a, b>> \in (0..MaxY) \X (0..MaxY) : a < b}

\* Box: x_min < x_max, y_min < y_max
Boxes == {<<xs[1], ys[1], xs[2], ys[2]>> : xs \in XSpans, ys \in YSpans}

BoxLists == UNION {[1..n -> Boxes] : n \in 0..MaxBoxes}

\* the detector output of the end-to-end scenario
ExampleBoxes == << <<10, 10, 50, 30>>, <<60, 35, 100, 55>>, <<200, 300, 250, 320>> >>

(***************************************************************************)
(* main.py: group_bounding_boxes                                           *)
(***************************************************************************)
\* a sort on y_min alone
KeyLess_YOnly(a, b) == a[2] < b[2]

\* a sort on x_min alone
KeyLess_XOnly(a, b) == a[1] < b[1]

\* key=lambda b: (b[1], b[0]) compared as Python compares tuples
KeyLess(a, b) == a[2] < b[2] \/ (a[2] = b[2] /\ a[1] < b[1])

\* insert b after every element whose key is <= key(b): sorted() is stable
RECURSIVE InsertSorted(_, _)
InsertSorted(s, b) ==
    IF s = <<>> THEN <<b>>
    ELSE IF KeyLess(b, Head(s)) THEN <<b>> \o s
    ELSE <<Head(s)>> \o InsertSorted(Tail(s), b)

RECURSIVE SortedBoxes(_)
SortedBoxes(bs) ==
    IF bs = <<>> THEN <<>>
    ELSE InsertSorted(SortedBoxes(SubSeq(bs, 1, Len(bs) - 1)), bs[Len(bs)])

\* the distance taken from the top of the previous box
VerticalDistance_FromTop(prev_box, current_box) == current_box[2] - prev_box[2]

\* vertical_distance = current_y_min - prev_y_max
VerticalDistance(prev_box, current_box) == current_box[2] - prev_box[4]

\* the test without its lower bound
CloseEnough_NoLowerBound(prev_box, current_box, thr) ==
    VerticalDistance(prev_box, current_box) <= thr

\* if 0 <= vertical_distance <= y_threshold
CloseEnough(prev_box, current_box, thr) ==
    /\ 0 <= VerticalDistance(prev_box, current_box)
    /\ VerticalDistance(prev_box, current_box) <= thr

\* the loop "for i in range(1, len(sorted_boxes))"; i is the Python index,
\* so sorted_boxes[i] is sb[i + 1] and sorted_boxes[i-1] is sb[i]
RECURSIVE GroupLoop(_, _, _, _, _)
GroupLoop(sb, thr, i, gs, current_group) ==
    IF i >= Len(sb)
    THEN IF current_group # <<>> THEN Append(gs, current_group) ELSE gs
    ELSE IF CloseEnough(sb[i], sb[i + 1], thr)
         THEN GroupLoop(sb, thr, i + 1, gs, Append(current_group, sb[i + 1]))
         ELSE GroupLoop(sb, thr, i + 1, Append(gs, current_group), <<sb[i + 1]>>)

\* the loop without the final "groups.append(current_group)"
group_bounding_boxes_NoLast(bs, thr) ==
    IF bs = <<>> THEN <<>>
    ELSE LET sorted_boxes == SortedBoxes(bs)
             r == GroupLoop(sorted_boxes, thr, 1, <<>>, <<sorted_boxes[1]>>)
         IN SubSeq(r, 1, Len(r) - 1)

group_bounding_boxes(bs, thr) ==
    IF bs = <<>> THEN <<>>
    ELSE LET sorted_boxes == SortedBoxes(bs)
         IN GroupLoop(sorted_boxes, thr, 1, <<>>, <<sorted_boxes[1]>>)

(***************************************************************************)
(* main.py: get_group_bounding_box                                         *)
(***************************************************************************)
Min(S) == CHOOSE m \in S : \A x \in S : m <= x
Max(S) == CHOOSE m \in S : \A x \in S : m >= x

Coord(group, k) == {group[j][k] : j \in 1..Len(group)}

\* the box of the first member widened only to the right and downwards
get_group_bounding_box_First(group) ==
    <<group[1][1], group[1][2], Max(Coord(group, 3)), Max(Coord(group, 4))>>

get_group_bounding_box(group) ==
    <<Min(Coord(group, 1)), Min(Coord(group, 2)),
      Max(Coord(group, 3)), Max(Coord(group, 4))>>

\* the TextFitter is not in use
FitIdle ==
    /\ text = <<>> /\ box_width = 1 /\ box_height = 1
    /\ max_size = 1 /\ min_size = 1
    /\ font = "truetype" /\ hashseed = 0
    /\ fpc = "idle" /\ size = 0 /\ best_size = 0
    /\ best_wrapped_text = <<>> /\ sizes_tried = <<>> /\ fit_exit = "none"

\* no call of calculate_font_size of its own is traced; the font and the
\* hash seed are those of the calls render_text makes
FitNotTraced ==
    /\ text = <<>> /\ box_width = 1 /\ box_height = 1
    /\ max_size = 1 /\ min_size = 1
    /\ fpc = "idle" /\ size = 0 /\ best_size = 0
    /\ best_wrapped_text = <<>> /\ sizes_tried = <<>> /\ fit_exit = "none"

(***************************************************************************)
(* BoxGrouper: the calls                                                   *)
(***************************************************************************)
GroupInit ==
    /\ \/ boxes \in BoxLists /\ y_threshold \in (-1)..MaxThreshold
       \/ boxes = ExampleBoxes /\ y_threshold = DefaultYThreshold
    /\ groups = <<>>
    /\ group_boxes = <<>>
    /\ gpc = "ready"
    /\ FitIdle
    /\ RenderIdle
    /\ PipeIdle
    /\ OthersIdle

\* groups = group_bounding_boxes(bounding_boxes)
CallGroup ==
    /\ gpc = "ready"
    /\ groups' = group_bounding_boxes(boxes, y_threshold)
    /\ gpc' = "grouped"
    /\ UNCHANGED <<boxes, y_threshold, group_boxes, fvars, rvars, pvars, xvars>>

\* for group in groups: group_box = get_group_bounding_box(group)
CallGroupBox ==
    /\ gpc = "grouped"
    /\ group_boxes' = [g \in 1..Len(groups) |-> get_group_bounding_box(groups[g])]
    /\ gpc' = "boxed"
    /\ UNCHANGED <<boxes, y_threshold, groups, fvars, rvars, pvars, xvars>>

GroupNext == CallGroup \/ CallGroupBox

SpecGroup == GroupInit /\ [][GroupNext]_vars

\* the calls with a threshold that is not negative
GroupInitNonNegative == GroupInit /\ y_threshold >= 0

SpecGroupNonNegative == GroupInitNonNegative /\ [][GroupNext]_vars

(***************************************************************************)
(* Texts.  A text is a sequence of one-character strings.                  *)
(***************************************************************************)
Alphabet == {"W", "i", " "}

\* non-empty input texts
Texts == UNION {[1..n -> Alphabet] : n \in 1..MaxTextLen}

\* str.isspace() for the characters of the model
IsSpace(c) == c \in {" ", "\n"}

RECURSIVE Concat(_)
Concat(ss) == IF ss = <<>> THEN <<>> ELSE Head(ss) \o Concat(Tail(ss))

\* sep.join(parts)
RECURSIVE Join(_, _)
Join(parts, sep) ==
    IF parts = <<>> THEN <<>>
    ELSE IF Len(parts) = 1 THEN parts[1]
    ELSE parts[1] \o <<sep>> \o Join(Tail(parts), sep)

\* str.split(): the maximal runs of non-whitespace characters
RECURSIVE SplitFrom(_, _, _, _)
SplitFrom(t, i, cur, acc) ==
    IF i > Len(t) THEN (IF cur = <<>> THEN acc ELSE Append(acc, cur))
    ELSE IF IsSpace(t[i])
         THEN SplitFrom(t, i + 1, <<>>, IF cur = <<>> THEN acc ELSE Append(acc, cur))
         ELSE SplitFrom(t, i + 1, Append(cur, t[i]), acc)

split(t) == SplitFrom(t, 1, <<>>, <<>>)

\* str.split("\n"): the lines of a text
RECURSIVE LinesFrom(_, _, _, _)
LinesFrom(t, i, cur, acc) ==
    IF i > Len(t) THEN Append(acc, cur)
    ELSE IF t[i] = "\n" THEN LinesFrom(t, i + 1, <<>>, Append(acc, cur))
         ELSE LinesFrom(t, i + 1, Append(cur, t[i]), acc)

TextLines(t) == LinesFrom(t, 1, <<>>, <<>>)

\* str.replace(old, new): every non-overlapping occurrence, left to right
RECURSIVE replace(_, _, _)
replace(t, old, new) ==
    IF Len(t) < Len(old) THEN t
    ELSE IF SubSeq(t, 1, Len(old)) = old
         THEN new \o replace(SubSeq(t, Len(old) + 1, Len(t)), old, new)
         ELSE <<t[1]>> \o replace(Tail(t), old, new)

(***************************************************************************)
(* text_renderer.py: get_font and the measurement primitive draw.textbbox. *)
(* The font file is outside the program; three outcomes of get_font are    *)
(* modelled:                                                               *)
(*   "truetype"  an outline font whose metrics scale with the size         *)
(*   "default"   ImageFont.load_default(), which ignores the size          *)
(*   "unusable"  a font in which "W" measures 0 wide at every size         *)
(* get_font(size) opens the same file for every size, so one call measures *)
(* with one font.  Metrics are in abstract pixels: at render size r, "W"   *)
(* advances 2r, every other character r; a line of glyphs is r high and    *)
(* successive lines are r + 1 apart.                                       *)
(***************************************************************************)
Fonts == {"truetype", "default", "unusable"}

\* the size the loaded font renders at
RenderSize(f, s) == IF f = "default" THEN 1 ELSE s

\* advance width of one character
CharWidth(c, f, s) ==
    IF c = "W" THEN (IF f = "unusable" THEN 0 ELSE 2 * RenderSize(f, s))
    ELSE RenderSize(f, s)

RECURSIVE LineWidth(_, _, _)
LineWidth(line, f, s) ==
    IF line = <<>> THEN 0 ELSE CharWidth(Head(line), f, s) + LineWidth(Tail(line), f, s)

\* distance between the tops of two successive lines
LineSpacing(f, s) == RenderSize(f, s) + 1

\* height of the glyphs of one line
GlyphHeight(f, s) == RenderSize(f, s)

\* draw.textbbox((0, 0), t, font=font) -> <<left, top, right, bottom>>;
\* bbox[k] in the code is textbbox(..)[k + 1] here
textbbox(t, f, s) ==
    IF t = <<>> THEN <<0, 0, 0, 0>>
    ELSE LET ls == TextLines(t)
         IN <<0, 0,
              Max({LineWidth(ls[j], f, s) : j \in 1..Len(ls)}),
              (Len(ls) - 1) * LineSpacing(f, s) + GlyphHeight(f, s)>>

(***************************************************************************)
(* text_renderer.py: break_long_word                                       *)
(***************************************************************************)
\* for i in range(len(word) - 1, 0, -1): the first i whose fragment fits
RECURSIVE BreakAt(_, _, _, _, _)
BreakAt(word, max_width, f, s, i) ==
    IF i < 1 THEN word
    ELSE LET test_fragment == Append(SubSeq(word, 1, i), "-")
             bbox == textbbox(test_fragment, f, s)
             fragment_width == bbox[3] - bbox[1]
         IN IF fragment_width <= max_width
            THEN SubSeq(word, 1, i) \o <<"-", "\n">> \o SubSeq(word, i + 1, Len(word))
            ELSE BreakAt(word, max_width, f, s, i - 1)

\* the last character of a word that is broken is lost
break_long_word_Truncates(word, max_width, f, s) ==
    LET bbox == textbbox(word, f, s)
        word_width == bbox[3] - bbox[1]
        broken == BreakAt(word, max_width, f, s, Len(word) - 1)
    IN IF word_width <= max_width \/ broken = word THEN word
       ELSE SubSeq(broken, 1, Len(broken) - 1)

break_long_word(word, max_width, f, s) ==
    LET bbox == textbbox(word, f, s)
        word_width == bbox[3] - bbox[1]
    IN IF word_width <= max_width THEN word
       ELSE BreakAt(word, max_width, f, s, Len(word) - 1)

(***************************************************************************)
(* textwrap.TextWrapper(width, break_long_words=False,                     *)
(*                      break_on_hyphens=False).wrap                       *)
(***************************************************************************)
\* _munge_whitespace then _split: every whitespace character becomes a
\* space, and the text is cut into alternating runs of spaces and non-spaces
RECURSIVE ChunksFrom(_, _, _, _)
ChunksFrom(t, i, cur, acc) ==
    IF i > Len(t) THEN (IF cur = <<>> THEN acc ELSE Append(acc, cur))
    ELSE LET c == IF IsSpace(t[i]) THEN " " ELSE t[i]
         IN IF cur = <<>> \/ (IsSpace(cur[1]) <=> IsSpace(c))
            THEN ChunksFrom(t, i + 1, Append(cur, c), acc)
            ELSE ChunksFrom(t, i + 1, <<c>>, Append(acc, cur))

Chunks(t) == ChunksFrom(t, 1, <<>>, <<>>)

\* chunk.strip() == ''
IsBlank(chunk) == \A j \in 1..Len(chunk) : IsSpace(chunk[j])

\* the inner loop of _wrap_chunks: how many leading chunks fit on the line
RECURSIVE FillCount(_, _, _, _)
FillCount(chunks, width, k, cur_len) ==
    IF k < Len(chunks) /\ cur_len + Len(chunks[k + 1]) <= width
    THEN FillCount(chunks, width, k + 1, cur_len + Len(chunks[k + 1]))
    ELSE k

\* _wrap_chunks with _handle_long_word for break_long_words=False
RECURSIVE WrapChunks(_, _, _)
WrapChunks(chunks, width, lines) ==
    IF chunks = <<>> THEN lines
    ELSE LET c1 == IF IsBlank(Head(chunks)) /\ lines # <<>>
                   THEN Tail(chunks) ELSE chunks
             k == FillCount(c1, width, 0, 0)
             long == k < Len(c1) /\ Len(c1[k + 1]) > width /\ k = 0
             n == IF long THEN 1 ELSE k
             cur_line == SubSeq(c1, 1, n)
             rest == SubSeq(c1, n + 1, Len(c1))
             kept == IF cur_line # <<>> /\ IsBlank(cur_line[Len(cur_line)])
                     THEN SubSeq(cur_line, 1, Len(cur_line) - 1) ELSE cur_line
         IN IF c1 = <<>> THEN lines
            ELSE WrapChunks(rest, width,
                            IF kept # <<>> THEN Append(lines, Concat(kept)) ELSE lines)

wrap(t, width) == WrapChunks(Chunks(t), width, <<>>)

(***************************************************************************)
(* text_renderer.py: calculate_font_size, one pass of the loop body        *)
(***************************************************************************)
\* char_width = draw.textbbox((0, 0), 'W', font=font)[2]
ProxyWidth(f, s) == textbbox(<<"W">>, f, s)[3]

\* if word_width > box_width * 0.975
TooWide(word, bw, f, s) ==
    LET bbox == textbbox(word, f, s)
        word_width == bbox[3] - bbox[1]
    IN word_width * 1000 > bw * 975

\* words_to_break: the set of the original words that are too wide
WordsToBreak(t, bw, f, s) ==
    LET original_words == split(t)
    IN {original_words[j] : j \in {j \in 1..Len(original_words) :
                                      TooWide(original_words[j], bw, f, s)}}

RECURSIVE Dedup(_, _)
Dedup(ws, seen) ==
    IF ws = <<>> THEN <<>>
    ELSE IF Head(ws) \in seen THEN Dedup(Tail(ws), seen)
    ELSE <<Head(ws)>> \o Dedup(Tail(ws), seen \cup {Head(ws)})

Reverse(q) == [j \in 1..Len(q) |-> q[Len(q) + 1 - j]]

\* "for word in words_to_break": the order in which a set of strings is
\* iterated follows the strings' hashes, which the hash seed decides
IterationOrder(t, bw, f, s, seed) ==
    LET ws == Dedup(SelectSeq(split(t), LAMBDA w : w \in WordsToBreak(t, bw, f, s)), {})
    IN IF seed = 0 THEN ws ELSE Reverse(ws)

\* processed_text = processed_text.replace(word, broken_word), word by word
RECURSIVE ReplaceAll(_, _, _, _, _)
ReplaceAll(processed_text, ws, bw, f, s) ==
    IF ws = <<>> THEN processed_text
    ELSE ReplaceAll(replace(processed_text, Head(ws), break_long_word(Head(ws), bw, f, s)),
                    Tail(ws), bw, f, s)

ProcessedText(t, bw, f, s, seed) ==
    ReplaceAll(t, IterationOrder(t, bw, f, s, seed), bw, f, s)

\* max_chars_per_line = max(1, int(box_width / char_width * 1.6))
MaxCharsPerLine(bw, char_width) ==
    LET q == (bw * 16) \div (char_width * 10)
    IN IF q < 1 THEN 1 ELSE q

\* wrapped_text = '\n'.join(wrapper.wrap(text=processed_text))
WrappedAt(t, bw, f, s, seed) ==
    Join(wrap(ProcessedText(t, bw, f, s, seed), MaxCharsPerLine(bw, ProxyWidth(f, s))),
         "\n")

\* text_height = bbox[3] - bbox[1]
TextHeight(t, f, s) == LET bbox == textbbox(t, f, s) IN bbox[4] - bbox[2]

\* the comparison turned round
HeightFits_Reversed(text_height, bh) == text_height * 13 >= bh * 10

\* if text_height * 1.3 <= box_height
HeightFits(text_height, bh) == text_height * 13 <= bh * 10

(***************************************************************************)
(* text_renderer.py: calculate_font_size as a function of its arguments    *)
(***************************************************************************)
\* for size in range(min_size, max_size + 1), from size s on
RECURSIVE FitLoop(_, _, _, _, _, _, _, _, _)
FitLoop(t, bw, bh, mx, f, seed, s, best, best_text) ==
    IF s > mx THEN <<best, best_text>>
    ELSE IF ProxyWidth(f, s) = 0 THEN <<best, best_text>>
    ELSE LET wrapped_text == WrappedAt(t, bw, f, s, seed)
         IN IF HeightFits(TextHeight(wrapped_text, f, s), bh)
            THEN FitLoop(t, bw, bh, mx, f, seed, s + 1, s, wrapped_text)
            ELSE <<best, best_text>>

calculate_font_size(t, bw, bh, mx, mn, f, seed) ==
    FitLoop(t, bw, bh, mx, f, seed, mn, mn, t)

(***************************************************************************)
(* TextFitter: one call of calculate_font_size, step by step               *)
(***************************************************************************)
\* the BoxGrouper is not in use
GroupIdle ==
    /\ boxes = <<>> /\ y_threshold = 0 /\ groups = <<>>
    /\ group_boxes = <<>> /\ gpc = "idle"

\* arguments beyond the enumerated ones: the 20-letter word of the
\* hyphenation scenario, a word whose two halves fit one wrapped line, two
\* over-wide words of which one is part of the other, and a short word in
\* a large box with the default sizes
FitExamples ==
    { [text |-> [j \in 1..20 |-> "a"],
       box_width |-> 60, box_height |-> 60, min_size |-> 20, max_size |-> 20],
      [text |-> <<"W", "W", "W", "W", "W">>,
       box_width |-> 9, box_height |-> 4, min_size |-> 1, max_size |-> 1],
      [text |-> <<"W", "W", " ", "W", "W", "W">>,
       box_width |-> 3, box_height |-> 10, min_size |-> 1, max_size |-> 1],
      [text |-> <<"W", "i">>,
       box_width |-> 400, box_height |-> 400,
       min_size |-> DefaultMinSize, max_size |-> DefaultMaxSize] }

\* the hash seeds to tell apart: a set of fewer than two words is iterated
\* in one order whatever the seed
HashSeeds(t) ==
    IF Cardinality({split(t)[j] : j \in 1..Len(split(t))}) >= 2 THEN {0, 1} ELSE {0}

FitInit ==
    /\ GroupIdle
    /\ RenderIdle
    /\ PipeIdle
    /\ OthersIdle
    /\ \/ /\ text \in Texts
          /\ box_width \in 1..MaxBoxWidth
          /\ box_height \in 1..MaxBoxHeight
          /\ min_size \in 1..2
          /\ max_size \in min_size..MaxFontSize
       \/ \E e \in FitExamples :
             /\ text = e.text
             /\ box_width = e.box_width
             /\ box_height = e.box_height
             /\ min_size = e.min_size
             /\ max_size = e.max_size
    /\ font \in Fonts
    /\ hashseed \in HashSeeds(text)
    /\ fpc = "ready"
    /\ size = 0
    /\ best_size = 0
    /\ best_wrapped_text = <<>>
    /\ sizes_tried = <<>>
    /\ fit_exit = "none"

\* best_size initialised to 0 instead of min_size
FitEnter_ZeroBest ==
    /\ fpc = "ready"
    /\ best_size' = 0
    /\ best_wrapped_text' = text
    /\ size' = min_size
    /\ fpc' = "loop"
    /\ UNCHANGED <<gvars, rvars, pvars, xvars, fargs, sizes_tried, fit_exit>>

\* best_size = min_size; best_wrapped_text = text; the loop starts
FitEnter ==
    /\ fpc = "ready"
    /\ best_size' = min_size
    /\ best_wrapped_text' = text
    /\ size' = min_size
    /\ fpc' = "loop"
    /\ UNCHANGED <<gvars, rvars, pvars, xvars, fargs, sizes_tried, fit_exit>>

\* "continue" in place of "break"
FitZeroWidth_Continue ==
    /\ fpc = "loop"
    /\ size <= max_size
    /\ ProxyWidth(font, size) = 0
    /\ sizes_tried' = Append(sizes_tried, size)
    /\ fit_exit' = "zero_width"
    /\ size' = size + 1
    /\ UNCHANGED <<gvars, rvars, pvars, xvars, fargs, fpc, best_size, best_wrapped_text>>

\* if char_width == 0: break
FitZeroWidth ==
    /\ fpc = "loop"
    /\ size <= max_size
    /\ ProxyWidth(font, size) = 0
    /\ sizes_tried' = Append(sizes_tried, size)
    /\ fit_exit' = "zero_width"
    /\ fpc' = "done"
    /\ UNCHANGED <<gvars, rvars, pvars, xvars, fargs, size, best_size, best_wrapped_text>>

\* "break" after the first size that fits
FitRecord_Stops ==
    /\ fpc = "loop"
    /\ size <= max_size
    /\ ProxyWidth(font, size) # 0
    /\ LET wrapped_text == WrappedAt(text, box_width, font, size, hashseed)
       IN /\ HeightFits(TextHeight(wrapped_text, font, size), box_height)
          /\ best_size' = size
          /\ best_wrapped_text' = wrapped_text
    /\ sizes_tried' = Append(sizes_tried, size)
    /\ fpc' = "done"
    /\ UNCHANGED <<gvars, rvars, pvars, xvars, fargs, size, fit_exit>>

\* the text wrapped at this size fits: record it and go on to the next size
FitRecord ==
    /\ fpc = "loop"
    /\ size <= max_size
    /\ ProxyWidth(font, size) # 0
    /\ LET wrapped_text == WrappedAt(text, box_width, font, size, hashseed)
       IN /\ HeightFits(TextHeight(wrapped_text, font, size), box_height)
          /\ best_size' = size
          /\ best_wrapped_text' = wrapped_text
    /\ sizes_tried' = Append(sizes_tried, size)
    /\ size' = size + 1
    /\ UNCHANGED <<gvars, rvars, pvars, xvars, fargs, fpc, fit_exit>>

\* best_size assigned before the height test
FitTooTall_RecordsSize ==
    /\ fpc = "loop"
    /\ size <= max_size
    /\ ProxyWidth(font, size) # 0
    /\ LET wrapped_text == WrappedAt(text, box_width, font, size, hashseed)
       IN ~HeightFits(TextHeight(wrapped_text, font, size), box_height)
    /\ best_size' = size
    /\ sizes_tried' = Append(sizes_tried, size)
    /\ fit_exit' = "too_tall"
    /\ fpc' = "done"
    /\ UNCHANGED <<gvars, rvars, pvars, xvars, fargs, size, best_wrapped_text>>

\* the text wrapped at this size is too tall: break
FitTooTall ==
    /\ fpc = "loop"
    /\ size <= max_size
    /\ ProxyWidth(font, size) # 0
    /\ LET wrapped_text == WrappedAt(text, box_width, font, size, hashseed)
       IN ~HeightFits(TextHeight(wrapped_text, font, size), box_height)
    /\ sizes_tried' = Append(sizes_tried, size)
    /\ fit_exit' = "too_tall"
    /\ fpc' = "done"
    /\ UNCHANGED <<gvars, rvars, pvars, xvars, fargs, size, best_size, best_wrapped_text>>

\* range(min_size, max_size + 1) is exhausted
FitExhausted ==
    /\ fpc = "loop"
    /\ size > max_size
    /\ fit_exit' = "exhausted"
    /\ fpc' = "done"
    /\ UNCHANGED <<gvars, rvars, pvars, xvars, fargs, size, best_size, best_wrapped_text, sizes_tried>>

FitNext == FitEnter \/ FitZeroWidth \/ FitRecord \/ FitTooTall \/ FitExhausted

SpecFit == FitInit /\ [][FitNext]_vars

\* the value returned at "return best_size, best_wrapped_text"
FitReturned == fpc = "done"

\* the step-by-step call returns what the function does
FitStepsAgree ==
    FitReturned =>
        <<best_size, best_wrapped_text>> =
            calculate_font_size(text, box_width, box_height, max_size, min_size,
                                font, hashseed)

(***************************************************************************)
(* BoxGrouper: properties                                                  *)
(***************************************************************************)
RECURSIVE Flatten(_)
Flatten(gs) == IF gs = <<>> THEN <<>> ELSE Head(gs) \o Flatten(Tail(gs))

\* the bag of the elements of a sequence
SeqToBag(s) ==
    [x \in {s[i] : i \in 1..Len(s)} |-> Cardinality({i \in 1..Len(s) : s[i] = x})]

\* the index of the group holding position k of the concatenated groups
RECURSIVE GroupOf(_, _)
GroupOf(gs, k) ==
    IF k <= Len(Head(gs)) THEN 1 ELSE 1 + GroupOf(Tail(gs), k - Len(Head(gs)))

GroupSizes(gs) == [g \in 1..Len(gs) |-> Len(gs[g])]

\* C1: group() partitions its input exactly: the concatenated groups hold
\* every input box occurrence exactly once, no group is empty, an empty
\* input gives no group and a single box gives one group of one.
C1_Partition ==
    gpc # "ready" =>
        /\ SeqToBag(Flatten(groups)) = SeqToBag(boxes)
        /\ \A g \in 1..Len(groups) : groups[g] # <<>>
        /\ boxes = <<>> => groups = <<>>
        /\ Len(boxes) = 1 => groups = <<boxes>>

C1_Witness ==
    /\ gpc = "grouped"
    /\ Len(boxes) = 3
    /\ boxes[1] = boxes[3]
    /\ Len(groups) = 2

\* C2: the groups concatenated in output order are the input boxes in
\* ascending (y_min, x_min) order, whatever the input order.
C2_ReadingOrder ==
    gpc # "ready" =>
        LET out == Flatten(groups) IN
        /\ SeqToBag(out) = SeqToBag(boxes)
        /\ \A i \in 1..(Len(out) - 1) :
              \/ out[i][2] < out[i + 1][2]
              \/ out[i][2] = out[i + 1][2] /\ out[i][1] <= out[i + 1][1]

C2_Witness ==
    /\ gpc = "grouped"
    /\ Len(boxes) = 3
    /\ Flatten(groups) # boxes
    /\ boxes[1][2] = boxes[2][2]
    /\ boxes[1][1] > boxes[2][1]

\* C3: two boxes adjacent in sort order are in the same group exactly when
\* 0 <= y_min(later) - y_max(earlier) <= y_threshold; the end-to-end
\* scenario gives two groups of sizes 2 and 1.
C3_JoinRule ==
    gpc # "ready" =>
        LET out == Flatten(groups) IN
        /\ \A i \in 1..(Len(out) - 1) :
              (GroupOf(groups, i) = GroupOf(groups, i + 1))
                  <=> (/\ 0 <= out[i + 1][2] - out[i][4]
                       /\ out[i + 1][2] - out[i][4] <= y_threshold)
        /\ (boxes = ExampleBoxes /\ y_threshold = DefaultYThreshold)
              => GroupSizes(groups) = <<2, 1>>

C3_Witness ==
    /\ gpc = "grouped"
    /\ boxes = ExampleBoxes
    /\ y_threshold = DefaultYThreshold
    /\ GroupSizes(groups) = <<2, 1>>

\* a group is split by an overlap, and another pair is joined
C3_WitnessOverlap ==
    /\ gpc = "grouped"
    /\ Len(boxes) = 3
    /\ GroupSizes(groups) = <<1, 2>>
    /\ Flatten(groups)[2][2] < Flatten(groups)[1][4]

\* C4: the box of a group is (min x_min, min y_min, max x_max, max y_max):
\* it contains every member and each edge is the edge of some member.
C4_GroupBox ==
    gpc = "boxed" =>
        \A g \in 1..Len(groups) :
            LET gb == group_boxes[g]
                members == {groups[g][j] : j \in 1..Len(groups[g])}
            IN /\ \A m \in members :
                      gb[1] <= m[1] /\ gb[2] <= m[2] /\ gb[3] >= m[3] /\ gb[4] >= m[4]
               /\ \A k \in 1..4 : \E m \in members : gb[k] = m[k]

C4_Witness ==
    /\ gpc = "boxed"
    /\ \E g \in 1..Len(groups) :
          /\ Len(groups[g]) >= 2
          /\ \A j \in 1..Len(groups[g]) : groups[g][j] # group_boxes[g]
          /\ group_boxes[g][1] < groups[g][1][1]

(***************************************************************************)
(* TextFitter: properties                                                  *)
(***************************************************************************)
\* the text, hyphenated and wrapped at size s, passes the height test
SizeFits(s) ==
    HeightFits(TextHeight(WrappedAt(text, box_width, font, s, hashseed), font, s),
               box_height)

\* C5: fit returns the largest size of min_size..max_size at which the
\* text, hyphenated and wrapped at that size, has height * 1.3 <=
\* box_height, and min_size when no size has.
C5_LargestFitting ==
    (FitReturned /\ fit_exit # "zero_width") =>
        LET fitting == {s \in min_size..max_size : SizeFits(s)}
        IN IF fitting = {} THEN best_size = min_size
           ELSE best_size = Max(fitting)

C8_NoFitReturnsWrappedMin ==
    (FitReturned /\ fit_exit = "too_tall" /\ sizes_tried = <<min_size>>) =>
        /\ best_size = min_size
        /\ best_wrapped_text = WrappedAt(text, box_width, font, min_size, hashseed)

\* C9: when "W" measures 0 wide at a candidate size the search stops at
\* once: no larger size is tried, and min_size, the smallest size tried, is
\* returned with the original unwrapped text.
C9_ZeroWidthAborts ==
    fit_exit = "zero_width" =>
        /\ fpc = "done"
        /\ sizes_tried = <<min_size>>
        /\ best_size = min_size
        /\ best_wrapped_text = text

C9_Witness ==
    /\ FitReturned
    /\ fit_exit = "zero_width"
    /\ min_size < max_size
    /\ Len(split(text)) >= 2

\* the measured height of the returned text at the returned size, times
\* 1.3, is at most box_height
ReturnedHeightFits ==
    TextHeight(best_wrapped_text, font, best_size) * 13 <= box_height * 10

\* C10 (as stated): every result of fit satisfies the height invariant.
C10_HeightInvariantAlways == FitReturned => ReturnedHeightFits

\* C10 (amended): a result of fit satisfies the height invariant whenever
\* "W" is not 0 wide at min_size and the text wrapped at min_size passes the
\* height test.
C10_HeightInvariantWhenMinFits ==
    (FitReturned /\ ProxyWidth(font, min_size) # 0 /\ SizeFits(min_size)) =>
        ReturnedHeightFits

C10_Witness ==
    /\ FitReturned
    /\ ProxyWidth(font, min_size) # 0
    /\ SizeFits(min_size)
    /\ best_size > min_size
    /\ Len(TextLines(best_wrapped_text)) >= 2

\* a size recorded the returned text: some pass of the loop fitted
FitRecorded == FitReturned /\ (fit_exit = "exhausted" \/ Len(sizes_tried) >= 2)

\* C11, read with its exception at its widest (every line of a text that
\* holds a word the long-word pass marks is excepted): in a result of fit
\* that a fitting size recorded, when no word of the text is marked as too
\* wide at font_size, no line of wrapped_text is wider than box_width.
C11_LinesWithinWidth ==
    (FitRecorded /\ WordsToBreak(text, box_width, font, best_size) = {}) =>
        \A j \in 1..Len(TextLines(best_wrapped_text)) :
            LineWidth(TextLines(best_wrapped_text)[j], font, best_size) <= box_width

\* "-" immediately followed by "\n"
HasHyphenBreak(t) == \E j \in 1..(Len(t) - 1) : t[j] = "-" /\ t[j + 1] = "\n"

\* the text is one word, wider than the box at every size of
\* min_size..max_size
SingleWideWord ==
    /\ split(text) = <<text>>
    /\ \A s \in min_size..max_size : LineWidth(text, font, s) > box_width

\* C12: for a text that is one word wider than the box at every allowed
\* size and of which some prefix plus hyphen fits the box, the string that a
\* pass of the loop hyphenates and wraps holds a hyphen immediately followed
\* by a line break.
C12_HyphenThenBreak ==
    (FitReturned /\ fit_exit # "zero_width" /\ SingleWideWord) =>
        \A j \in 1..Len(sizes_tried) :
            LET s == sizes_tried[j]
            IN break_long_word(text, box_width, font, s) # text
                   => HasHyphenBreak(WrappedAt(text, box_width, font, s, hashseed))


\* the results fit returns for the arguments under every order in which the
\* set of over-wide words can be iterated
ResultsOverOrders ==
    { calculate_font_size(text, box_width, box_height, max_size, min_size,
                          font, seed) : seed \in {0, 1} }

\* C16: fit is a function of its arguments: the result it returns is the
\* result of every invocation with the same text, box, size range and font,
\* whatever the order in which the over-wide words are replaced.
C16_Deterministic ==
    FitReturned => ResultsOverOrders = {<<best_size, best_wrapped_text>>}


(***************************************************************************)
(* text_renderer.py: render_text, the punctuation normalization            *)
(***************************************************************************)
\* the characters of the texts given to render_text: the ASCII period, the
\* full-width period (U+FF0E), the ellipsis glyph (U+2026), a blank and an
\* ordinary glyph; each is one character of the text
RenderAlphabet == {".", "U+FF0E", "U+2026", " ", "a"}

\* the number of whitespace characters of t from index i on (regex \s+)
RECURSIVE SpaceRun(_, _)
SpaceRun(t, i) ==
    IF i <= Len(t) /\ IsSpace(t[i]) THEN 1 + SpaceRun(t, i + 1) ELSE 0

\* the number of ASCII periods of t from index i on (regex \.{3,})
RECURSIVE PeriodRun(_, _)
PeriodRun(t, i) ==
    IF i <= Len(t) /\ t[i] = "." THEN 1 + PeriodRun(t, i + 1) ELSE 0

\* re.sub(r'\.\s+\.', '..', t) from index i on: the matches are found left
\* to right and do not overlap, the search resumes after the match
RECURSIVE SubPeriodGap(_, _)
SubPeriodGap(t, i) ==
    IF i > Len(t) THEN <<>>
    ELSE LET n == SpaceRun(t, i + 1)
         IN IF t[i] = "." /\ n >= 1 /\ i + n + 1 <= Len(t) /\ t[i + n + 1] = "."
            THEN <<".", ".">> \o SubPeriodGap(t, i + n + 2)
            ELSE <<t[i]>> \o SubPeriodGap(t, i + 1)

\* three periods are put back for every period of a long run
RECURSIVE SubPeriodRuns_PerPeriod(_, _)
SubPeriodRuns_PerPeriod(t, i) ==
    IF i > Len(t) THEN <<>>
    ELSE IF PeriodRun(t, i) >= 3
         THEN <<".", ".", ".">> \o SubPeriodRuns_PerPeriod(t, i + 1)
         ELSE <<t[i]>> \o SubPeriodRuns_PerPeriod(t, i + 1)

\* re.sub(r'\.{3,}', '...', t) from index i on
RECURSIVE SubPeriodRuns(_, _)
SubPeriodRuns(t, i) ==
    IF i > Len(t) THEN <<>>
    ELSE LET n == PeriodRun(t, i)
         IN IF n >= 3
            THEN <<".", ".", ".">> \o SubPeriodRuns(t, i + n)
            ELSE <<t[i]>> \o SubPeriodRuns(t, i + 1)

\* translated_text after lines 134-138
NormalizedText(t) ==
    LET ascii == replace(replace(t, <<"U+FF0E">>, <<".">>), <<"U+2026">>, <<".">>)
    IN SubPeriodRuns(SubPeriodGap(ascii, 1), 1)


(***************************************************************************)
(* text_renderer.py: render_text, drawing.  draw.text paints the glyph     *)
(* cells of every non-blank character of the text in the fill colour, the  *)
(* lines centred in the width of the text block, clipped to the image.     *)
(***************************************************************************)
\* int(v) for v = n / 2: truncation towards zero
IntOfHalf(n) == IF n >= 0 THEN n \div 2 ELSE -((-n) \div 2)

\* the pixels of the image in columns x..(x + w - 1), rows y..(y + h - 1)
Clip(x, w, y, h) ==
    (Max({x, 0})..Min({x + w - 1, ImageWidth - 1}))
        \X (Max({y, 0})..Min({y + h - 1, ImageHeight - 1}))

\* the pixels draw.text((x, y), t, font=font, align='center') paints
Ink(t, f, s, x, y) ==
    LET ls == TextLines(t)
        block_width == textbbox(t, f, s)[3]
        LineInk(j) ==
            LET left == x + ((block_width - LineWidth(ls[j], f, s)) \div 2)
                top == y + (j - 1) * LineSpacing(f, s)
            IN UNION { IF IsSpace(ls[j][k]) THEN {}
                       ELSE Clip(left + LineWidth(SubSeq(ls[j], 1, k - 1), f, s),
                                 CharWidth(ls[j][k], f, s), top, GlyphHeight(f, s)) :
                       k \in 1..Len(ls[j]) }
    IN UNION { LineInk(j) : j \in 1..Len(ls) }

\* the image after draw.text((x, y), t, font=font, fill=fill, align='center')
draw_text(img, t, f, s, x, y, fill) ==
    [px \in Ink(t, f, s, x, y) |-> fill] @@ img

\* the outline loops without "if x_offset != 0 or y_offset != 0"
OutlineOffsets_WithCentre ==
    LET n == 2 * OutlineWidth + 1
    IN [k \in 1..(n * n) |->
           <<((k - 1) \div n) - OutlineWidth, ((k - 1) % n) - OutlineWidth>>]

\* the (x_offset, y_offset) pairs of the outline loops, in loop order
OutlineOffsets ==
    LET n == 2 * OutlineWidth + 1
        all == [k \in 1..(n * n) |->
                   <<((k - 1) \div n) - OutlineWidth, ((k - 1) % n) - OutlineWidth>>]
    IN SelectSeq(all, LAMBDA o : o[1] # 0 \/ o[2] # 0)

\* lines 130-142: the normalization and the space left inside the padding
RenderNormalize(p) ==
    /\ render[p].pc = "ready"
    /\ LET r == render[p]
           bb == r.bounding_box
       IN render' = [render EXCEPT ![p] =
              [r EXCEPT !.pc = "sized",
                        !.translated_text = NormalizedText(r.translated_text),
                        !.box_width = bb[3] - bb[1] - 2 * r.padding,
                        !.box_height = bb[4] - bb[2] - 2 * r.padding]]
    /\ UNCHANGED <<gvars, fvars, pvars, xvars, images>>

\* lines 144-146: the box is too small, the image is returned as it is
RenderTooSmall(p) ==
    /\ render[p].pc = "sized"
    /\ render[p].box_width <= 0 \/ render[p].box_height <= 0
    /\ render' = [render EXCEPT ![p].pc = "done",
                                ![p].returned = render[p].image_pil]
    /\ UNCHANGED <<gvars, fvars, pvars, xvars, images>>

\* the whole text size, not half of it, taken off the centre of the box
Placed_WholeSize(r, fit) ==
    LET bb == r.bounding_box
        bbox == textbbox(fit[2], font, fit[1])
        text_width == bbox[3] - bbox[1]
        text_height == bbox[4] - bbox[2]
    IN [r EXCEPT !.pc = "outline",
                 !.fit_calls = r.fit_calls + 1,
                 !.font_size = fit[1],
                 !.wrapped_text = fit[2],
                 !.text_x = IntOfHalf(bb[1] + bb[3]) - text_width,
                 !.text_y = IntOfHalf(bb[2] + bb[4]) - text_height]

\* lines 150-166 for the call with record r: the result fit of
\* calculate_font_size is kept and the text is centred on the box
Placed(r, fit) ==
    LET bb == r.bounding_box
        bbox == textbbox(fit[2], font, fit[1])
        text_width == bbox[3] - bbox[1]
        text_height == bbox[4] - bbox[2]
    IN [r EXCEPT !.pc = "outline",
                 !.fit_calls = r.fit_calls + 1,
                 !.font_size = fit[1],
                 !.wrapped_text = fit[2],
                 !.text_x = IntOfHalf(bb[1] + bb[3] - text_width),
                 !.text_y = IntOfHalf(bb[2] + bb[4] - text_height)]

\* the height left inside the padding is not looked at
RenderFit_WidthOnly(p) ==
    /\ render[p].pc = "sized"
    /\ render[p].box_width > 0
    /\ \E fit \in { calculate_font_size(render[p].translated_text,
                                        render[p].box_width, render[p].box_height,
                                        DefaultMaxSize, DefaultMinSize, font, hashseed) } :
          render' = [render EXCEPT ![p] = Placed(render[p], fit)]
    /\ UNCHANGED <<gvars, fvars, pvars, xvars, images>>

\* lines 149-166: the font size, the wrapped text and the position
RenderFit(p) ==
    /\ render[p].pc = "sized"
    /\ render[p].box_width > 0 /\ render[p].box_height > 0
    /\ \E fit \in { calculate_font_size(render[p].translated_text,
                                        render[p].box_width, render[p].box_height,
                                        DefaultMaxSize, DefaultMinSize, font, hashseed) } :
          render' = [render EXCEPT ![p] = Placed(render[p], fit)]
    /\ UNCHANGED <<gvars, fvars, pvars, xvars, images>>

\* the outline is drawn on every image, not on image_pil alone
RenderOutline_EveryImage(p) ==
    /\ render[p].pc = "outline"
    /\ Len(render[p].draws) < Len(OutlineOffsets)
    /\ LET r == render[p]
           o == OutlineOffsets[Len(r.draws) + 1]
       IN /\ images' = [m \in ImageIds |->
                 draw_text(images[m], r.wrapped_text, font, r.font_size,
                           r.text_x + o[1], r.text_y + o[2], "white")]
          /\ render' = [render EXCEPT ![p].draws =
                 Append(@, <<r.text_x + o[1], r.text_y + o[2], "white",
                          r.wrapped_text, r.font_size>>)]
    /\ UNCHANGED <<gvars, fvars, pvars, xvars>>

\* lines 174-178: one draw.text of the outline
RenderOutline(p) ==
    /\ render[p].pc = "outline"
    /\ Len(render[p].draws) < Len(OutlineOffsets)
    /\ LET r == render[p]
           o == OutlineOffsets[Len(r.draws) + 1]
       IN /\ images' = [images EXCEPT ![r.image_pil] =
                 draw_text(@, r.wrapped_text, font, r.font_size,
                           r.text_x + o[1], r.text_y + o[2], "white")]
          /\ render' = [render EXCEPT ![p].draws =
                 Append(@, <<r.text_x + o[1], r.text_y + o[2], "white",
                          r.wrapped_text, r.font_size>>)]
    /\ UNCHANGED <<gvars, fvars, pvars, xvars>>

\* lines 181-183: the draw.text of the text itself, and the return
RenderMain(p) ==
    /\ render[p].pc = "outline"
    /\ Len(render[p].draws) = Len(OutlineOffsets)
    /\ LET r == render[p]
       IN /\ images' = [images EXCEPT ![r.image_pil] =
                 draw_text(@, r.wrapped_text, font, r.font_size,
                           r.text_x, r.text_y, "black")]
          /\ render' = [render EXCEPT ![p].draws =
                                          Append(@, <<r.text_x, r.text_y, "black",
                                                      r.wrapped_text, r.font_size>>),
                                      ![p].pc = "done",
                                      ![p].returned = r.image_pil]
    /\ UNCHANGED <<gvars, fvars, pvars, xvars>>

RenderNext ==
    \E p \in Procs :
        \/ RenderNormalize(p)
        \/ RenderTooSmall(p)
        \/ RenderFit(p)
        \/ RenderOutline(p)
        \/ RenderMain(p)


(***************************************************************************)
(* One call of render_text                                                 *)
(***************************************************************************)
RenderTexts == UNION {[1..n -> RenderAlphabet] : n \in 0..MaxRenderLen}

\* texts that are drawn: one glyph, two words, punctuation to normalize
DrawTexts == { <<"W">>, <<"i", " ", "W">>, <<"a", "U+2026">> }

\* boxes inside the image, an empty one and one with x_max < x_min
RenderBoxes ==
    { <<0, 0, 3, 3>>, <<1, 1, 7, 4>>, <<4, 2, 8, 6>>,
      <<2, 2, 2, 5>>, <<1, 4, 6, 4>>, <<5, 1, 3, 3>> }

Paddings == {0, 1, DefaultPadding}

\* the record of the call render_text(image m, t, bb, pad) before its first step
Call(m, t, bb, pad) ==
    [NoCall EXCEPT !.pc = "ready", !.image_pil = m, !.text_arg = t,
                   !.translated_text = t, !.bounding_box = bb, !.padding = pad]

RenderInit ==
    /\ GroupIdle
    /\ FitNotTraced
    /\ PipeIdle
    /\ OthersIdle
    /\ images = [m \in ImageIds |-> BlankImage]
    /\ \E t \in RenderTexts \cup DrawTexts, bb \in RenderBoxes \cup {<<0, 0, ImageWidth, ImageHeight>>},
          pad \in Paddings :
          /\ \/ /\ t \in RenderTexts
                /\ bb = <<0, 0, ImageWidth, ImageHeight>>
                /\ pad = DefaultPadding
                /\ font = "truetype" /\ hashseed = 0
             \/ /\ t \in DrawTexts
                /\ bb \in RenderBoxes
                /\ font \in Fonts /\ hashseed \in {0, 1}
          /\ render = [p \in Procs |-> IF p = 1 THEN Call(1, t, bb, pad) ELSE NoCall]

SpecRender == RenderInit /\ [][RenderNext]_vars


(***************************************************************************)
(* Properties of render_text                                               *)
(***************************************************************************)
\* call p is past the normalization of its text
Normalized(p) == render[p].pc \in {"sized", "outline", "done"}

\* two ordinary glyphs followed by three full-width periods, and its
\* normalized form
FullWidthExample == <<"a", "a", "U+FF0E", "U+FF0E", "U+FF0E">>
FullWidthNormalized == <<"a", "a", ".", ".", ".">>

\* C13: after the normalization of render_text the text holds no full-width
\* period, no ellipsis glyph and no run of more than three ASCII periods;
\* two glyphs followed by three full-width periods become the two glyphs
\* followed by "...".
C13_NormalizedPunctuation ==
    \A p \in Procs :
        Normalized(p) =>
            LET t == render[p].translated_text
            IN /\ \A k \in 1..Len(t) : t[k] \notin {"U+FF0E", "U+2026"}
               /\ \A k \in 1..Len(t) : PeriodRun(t, k) <= 3
               /\ render[p].text_arg = FullWidthExample => t = FullWidthNormalized

\* a text with wide punctuation and a run of four periods has been normalized
C13_Witness ==
    /\ Normalized(1)
    /\ render[1].text_arg = <<"U+2026", "U+FF0E", ".", ".", "a">>
    /\ render[1].translated_text = <<".", ".", ".", "a">>

\* a period, then whitespace, then a period, somewhere in t
HasPeriodGap(t) ==
    \E k \in 1..Len(t) :
        LET n == SpaceRun(t, k + 1)
        IN t[k] = "." /\ n >= 1 /\ k + n + 1 <= Len(t) /\ t[k + n + 1] = "."

\* C14: after the normalization of render_text the text holds no period
\* that is followed by whitespace and then another period.
C14_NoPeriodGap ==
    \A p \in Procs : Normalized(p) => ~HasPeriodGap(render[p].translated_text)

\* the arguments of call p leave no room inside the padding
NoRoom(p) ==
    LET bb == render[p].bounding_box
    IN \/ (bb[3] - bb[1]) - 2 * render[p].padding <= 0
       \/ (bb[4] - bb[2]) - 2 * render[p].padding <= 0

\* C15: a call of render_text whose box leaves no width or no height inside
\* the padding never calls calculate_font_size and never draws; it returns
\* the image it was given, with every pixel as it was.
C15_TooSmallIsNoOp ==
    \A p \in Procs :
        (render[p].pc # "idle" /\ NoRoom(p)) =>
            /\ render[p].pc \in {"ready", "sized", "done"}
            /\ render[p].fit_calls = 0
            /\ render[p].draws = <<>>
            /\ images[render[p].image_pil] = BlankImage
            /\ render[p].pc = "done" => render[p].returned = render[p].image_pil

\* a call has returned from a box that had width but no height left
C15_Witness ==
    /\ render[1].pc = "done"
    /\ render[1].box_width > 0 /\ render[1].box_height <= 0
    /\ render[1].text_arg # <<>>


(***************************************************************************)
(* render_text as a function of the image and its arguments                *)
(***************************************************************************)
\* the image after the outline draws number k and later
RECURSIVE DrawOutline(_, _, _, _, _, _, _)
DrawOutline(img, t, f, s, x, y, k) ==
    IF k > Len(OutlineOffsets) THEN img
    ELSE DrawOutline(draw_text(img, t, f, s, x + OutlineOffsets[k][1],
                               y + OutlineOffsets[k][2], "white"),
                     t, f, s, x, y, k + 1)

render_text(img, t, bb, pad, f, seed) ==
    LET norm == NormalizedText(t)
        bw == bb[3] - bb[1] - 2 * pad
        bh == bb[4] - bb[2] - 2 * pad
    IN IF bw <= 0 \/ bh <= 0 THEN img
       ELSE LET fit == calculate_font_size(norm, bw, bh, DefaultMaxSize,
                                           DefaultMinSize, f, seed)
                bbox == textbbox(fit[2], f, fit[1])
                x == IntOfHalf(bb[1] + bb[3] - (bbox[3] - bbox[1]))
                y == IntOfHalf(bb[2] + bb[4] - (bbox[4] - bbox[2]))
            IN draw_text(DrawOutline(img, fit[2], f, fit[1], x, y, 1),
                         fit[2], f, fit[1], x, y, "black")

(***************************************************************************)
(* Two units of work at the same time: each groups its box list, takes the *)
(* box of the first group and renders its text into that box.  A step of   *)
(* one can come between any two steps of the other.                        *)
(***************************************************************************)
\* main.py lines 141 and 146, for one unit of work
ParGroup(p) ==
    /\ render[p].pc = "group"
    /\ LET g == group_bounding_boxes(render[p].box_list, DefaultYThreshold)
       IN render' = [render EXCEPT ![p].grouped = g,
                                   ![p].bounding_box = get_group_bounding_box(g[1]),
                                   ![p].pc = "ready"]
    /\ UNCHANGED <<gvars, fvars, pvars, xvars, images>>

\* the box lists of the first and of the second unit
ParBoxLists(p) ==
    IF p = 1 THEN { << <<0, 0, 3, 2>>, <<1, 1, 4, 3>> >>, << <<0, 0, 1, 1>> >> }
    ELSE { << <<2, 1, 6, 4>> >>, << <<6, 4, 8, 6>> >> }

ParTexts == { <<"W">>, <<"i">> }

ParInit ==
    /\ GroupIdle
    /\ FitNotTraced
    /\ PipeIdle
    /\ OthersIdle
    /\ hashseed = 0
    /\ images = [m \in ImageIds |-> BlankImage]
    /\ \E t1 \in ParTexts, t2 \in ParTexts, m2 \in ImageIds,
          b1 \in ParBoxLists(1), b2 \in ParBoxLists(2), pad2 \in {0, DefaultPadding} :
          /\ \/ font = "default" /\ pad2 = 0
             \/ font = "default" /\ pad2 = DefaultPadding /\ t1 = <<"W">> /\ t2 = <<"i">>
             \/ font = "truetype" /\ pad2 = 0 /\ t1 = <<"W">> /\ t2 = <<"i">> /\ Len(b1) = 2
          /\ render = [p \in Procs |->
                 [NoCall EXCEPT !.pc = "group",
                                !.image_pil = IF p = 1 THEN 1 ELSE m2,
                                !.text_arg = IF p = 1 THEN t1 ELSE t2,
                                !.translated_text = IF p = 1 THEN t1 ELSE t2,
                                !.padding = IF p = 1 THEN 0 ELSE pad2,
                                !.box_list = IF p = 1 THEN b1 ELSE b2]]

ParNext == (\E p \in Procs : ParGroup(p)) \/ RenderNext

SpecPar == ParInit /\ [][ParNext]_vars


(***************************************************************************)
(* Properties of concurrent calls                                          *)
(***************************************************************************)
BothDone == \A p \in Procs : render[p].pc = "done"

\* the box unit p renders into, from its box list alone
UnitBox(p) ==
    get_group_bounding_box(
        group_bounding_boxes(render[p].box_list, DefaultYThreshold)[1])

\* the images after unit p has run alone, from start to end, on imgs
AfterUnit(imgs, p) ==
    [imgs EXCEPT ![render[p].image_pil] =
        render_text(@, render[p].text_arg, UnitBox(p), render[p].padding,
                    font, hashseed)]

\* the images after p has run alone and then q has run alone
Serial(p, q) == AfterUnit(AfterUnit([m \in ImageIds |-> BlankImage], p), q)

\* what unit p returned is what it returns when it runs alone
OwnResults(p) ==
    LET r == render[p]
        fit == calculate_font_size(NormalizedText(r.text_arg), r.box_width,
                                   r.box_height, DefaultMaxSize, DefaultMinSize,
                                   font, hashseed)
    IN /\ r.grouped = group_bounding_boxes(r.box_list, DefaultYThreshold)
       /\ r.bounding_box = UnitBox(p)
       /\ r.fit_calls = 1 => <<r.font_size, r.wrapped_text>> = fit
       /\ r.returned = r.image_pil

\* the pixels the draws of unit p paint
Footprint(p) ==
    LET r == render[p]
    IN UNION { Ink(r.wrapped_text, font, r.font_size, r.draws[k][1], r.draws[k][2]) :
                   k \in 1..Len(r.draws) }

\* the two units draw on different images, or on no pixel in common
DrawApart ==
    \/ render[1].image_pil # render[2].image_pil
    \/ Footprint(1) \cap Footprint(2) = {}

\* C17 as stated: whatever the interleaving of two concurrent units, the
\* values they return and the contents of the images are those of running
\* one unit after the other.
C17_InterleavingsAreSerial ==
    BothDone =>
        /\ \A p \in Procs : OwnResults(p)
        /\ images \in {Serial(1, 2), Serial(2, 1)}

\* C17, amended: grouping and fitting return what they return alone in every
\* interleaving; the images are those of running one unit after the other
\* when the two units draw on different images or on no pixel in common.
C17_SerialWhenDrawnApart ==
    BothDone =>
        /\ \A p \in Procs : OwnResults(p)
        /\ DrawApart => images = Serial(1, 2) /\ images = Serial(2, 1)

\* both units have drawn their text on the same image, on separate pixels
C17_Witness ==
    /\ BothDone
    /\ render[1].image_pil = render[2].image_pil
    /\ \A p \in Procs : Len(render[p].draws) = Len(OutlineOffsets) + 1
    /\ \A p \in Procs : Footprint(p) # {}
    /\ Footprint(1) \cap Footprint(2) = {}

\* both units have drawn their text, each on an image of its own
C17_WitnessTwoImages ==
    /\ BothDone
    /\ render[1].image_pil # render[2].image_pil
    /\ \A p \in Procs : Footprint(p) # {}


(***************************************************************************)
(* main.py: run_translation_pipeline.  The collaborators (load_image,      *)
(* detect_text_regions, extract_text_from_image,                           *)
(* translate_japanese_to_english, remove_text) are outside the model: each *)
(* call takes one of the outcomes its caller handles.  Japanese and        *)
(* English texts are sequences of characters; the marker the translator    *)
(* opens its error messages with counts as one character.                  *)
(***************************************************************************)
MaxDetected == 3        \* longest list of boxes the detector returns

ErrorMarker == "[Translation Error"

\* the boxes the detector can report, in the order it reports them: two
\* of which one lies just below the other, and two that lie far below
DetectorBoxes ==
    << <<0, 100, 10, 110>>, <<0, 0, 10, 10>>, <<5, 200, 15, 210>>, <<12, 15, 20, 25>> >>

\* the lists the detector can return: the boxes of a set of positions
RECURSIVE Pick(_, _)
Pick(S, k) ==
    IF k > Len(DetectorBoxes) THEN <<>>
    ELSE (IF k \in S THEN <<DetectorBoxes[k]>> ELSE <<>>) \o Pick(S, k + 1)

DetectLists ==
    { Pick(S, 1) : S \in { T \in SUBSET (1..Len(DetectorBoxes)) : Cardinality(T) <= MaxDetected } }

\* outcomes of detect_text_regions(input_image_path)
DetectOutcomes ==
    {[kind |-> "raises", boxes |-> <<>>]}
        \cup {[kind |-> "value", boxes |-> bs] : bs \in DetectLists}

\* outcomes of extract_text_from_image(cropped_image)
OcrOutcomes ==
    { [kind |-> "raises", text |-> <<>>],
      [kind |-> "none", text |-> <<>>],
      [kind |-> "value", text |-> <<" ">>],
      [kind |-> "value", text |-> <<"k">>] }

\* outcomes of translate_japanese_to_english(full_japanese_text)
TranslateOutcomes ==
    { [kind |-> "raises", text |-> <<>>],
      [kind |-> "value", text |-> <<ErrorMarker, ":", "x", "]">>],
      [kind |-> "value", text |-> <<>>],
      [kind |-> "value", text |-> <<"e">>] }

\* one call of a collaborator, as recorded in calls
Entry(fn, group, box, kind, result) ==
    [fn |-> fn, group |-> group, box |-> box, kind |-> kind, text |-> result,
     boxes |-> <<>>, padding |-> 0]

NoBox == <<0, 0, 0, 0>>

\* "[Translation Error" in english_text
HasErrorMarker(english_text) ==
    \E k \in 1..Len(english_text) : english_text[k] = ErrorMarker

\* japanese_text_raw is None or not str(japanese_text_raw).strip()
NoText(o) == o.kind = "none" \/ IsBlank(o.text)

PipeInit ==
    /\ GroupIdle
    /\ FitIdle
    /\ RenderIdle
    /\ OthersIdle
    /\ ppc = "load" /\ original_image = "None"
    /\ bounding_boxes = <<>> /\ grouped_boxes = <<>>
    /\ group_index = 0 /\ box_index = 0
    /\ combined_japanese_text = <<>> /\ successful_original_boxes = <<>>
    /\ translated_data_list = <<>>
    /\ returned = [image |-> "pending", list |-> NoneList]
    /\ calls = <<>>

\* a failed load is not looked at: the pipeline goes on to the detection
PipeLoad_Continues ==
    /\ ppc = "load"
    /\ \E loaded \in BOOLEAN :
          /\ calls' = Append(calls, Entry("load_image", 0, NoBox,
                                          IF loaded THEN "value" ELSE "none", <<>>))
          /\ original_image' = IF loaded THEN "original" ELSE "None"
          /\ ppc' = "detect"
          /\ UNCHANGED returned
    /\ UNCHANGED <<gvars, fvars, rvars, xvars, bounding_boxes, grouped_boxes, group_index,
                   box_index, combined_japanese_text, successful_original_boxes,
                   translated_data_list>>

\* lines 116-120: load_image; None ends the pipeline with (None, None)
PipeLoad ==
    /\ ppc = "load"
    /\ \E loaded \in BOOLEAN :
          /\ calls' = Append(calls, Entry("load_image", 0, NoBox,
                                          IF loaded THEN "value" ELSE "none", <<>>))
          /\ original_image' = IF loaded THEN "original" ELSE "None"
          /\ IF loaded
             THEN ppc' = "detect" /\ UNCHANGED returned
             ELSE ppc' = "done" /\ returned' = [image |-> "None", list |-> NoneList]
    /\ UNCHANGED <<gvars, fvars, rvars, xvars, bounding_boxes, grouped_boxes, group_index,
                   box_index, combined_japanese_text, successful_original_boxes,
                   translated_data_list>>

\* lines 122-135: detect_text_regions; an exception ends the pipeline with
\* (None, None), an empty result with (original_image, [])
PipeDetect ==
    /\ ppc = "detect"
    /\ \E d \in DetectOutcomes :
          /\ calls' = Append(calls, Entry("detect_text_regions", 0, NoBox, d.kind, <<>>))
          /\ IF d.kind = "raises"
             THEN /\ ppc' = "done"
                  /\ returned' = [image |-> "None", list |-> NoneList]
                  /\ UNCHANGED bounding_boxes
             ELSE IF d.boxes = <<>>
             THEN /\ ppc' = "done"
                  /\ returned' = [image |-> original_image, list |-> ListOf(<<>>)]
                  /\ bounding_boxes' = d.boxes
             ELSE /\ ppc' = "group"
                  /\ bounding_boxes' = d.boxes
                  /\ UNCHANGED returned
    /\ UNCHANGED <<gvars, fvars, rvars, xvars, original_image, grouped_boxes, group_index,
                   box_index, combined_japanese_text, successful_original_boxes,
                   translated_data_list>>

\* lines 137-149: the grouping and the entry into the loops
PipeGroup ==
    /\ ppc = "group"
    /\ grouped_boxes' = group_bounding_boxes(bounding_boxes, DefaultYThreshold)
    /\ translated_data_list' = <<>>
    /\ group_index' = 1 /\ box_index' = 1
    /\ combined_japanese_text' = <<>> /\ successful_original_boxes' = <<>>
    /\ ppc' = "ocr"
    /\ UNCHANGED <<gvars, fvars, rvars, xvars, original_image, bounding_boxes, returned, calls>>


\* the loops move on from the group at group_index: lines 143-149
NextGroup ==
    /\ group_index' = group_index + 1
    /\ box_index' = 1
    /\ combined_japanese_text' = <<>>
    /\ successful_original_boxes' = <<>>
    /\ ppc' = IF group_index = Len(grouped_boxes) THEN "finish" ELSE "ocr"

\* lines 151-171: the OCR of one box of the group; a box without text or
\* with a failing OCR is left out
PipeOcr ==
    /\ ppc = "ocr"
    /\ LET group == grouped_boxes[group_index]
           box == group[box_index]
       IN \E o \in OcrOutcomes :
             /\ calls' = Append(calls, Entry("extract_text_from_image", group_index,
                                             box, o.kind, o.text))
             /\ IF o.kind = "raises" \/ NoText(o)
                THEN UNCHANGED <<combined_japanese_text, successful_original_boxes>>
                ELSE /\ combined_japanese_text' = Append(combined_japanese_text, o.text)
                     /\ successful_original_boxes' = Append(successful_original_boxes, box)
             /\ IF box_index = Len(group)
                THEN ppc' = "translate" /\ UNCHANGED box_index
                ELSE box_index' = box_index + 1 /\ UNCHANGED ppc
    /\ UNCHANGED <<gvars, fvars, rvars, xvars, original_image, bounding_boxes, grouped_boxes,
                   group_index, translated_data_list, returned>>

\* full_japanese_text = " ".join(combined_japanese_text)
full_japanese_text == Join(combined_japanese_text, " ")

\* lines 173-177: no text was extracted for the group
PipeSkipGroup ==
    /\ ppc = "translate"
    /\ IsBlank(full_japanese_text)
    /\ NextGroup
    /\ UNCHANGED <<gvars, fvars, rvars, xvars, original_image, bounding_boxes, grouped_boxes,
                   translated_data_list, returned, calls>>

\* the dict appended for the group at group_index
Unit(english_text) ==
    [group_box |-> get_group_bounding_box(grouped_boxes[group_index]),
     japanese_text |-> full_japanese_text,
     english_text |-> english_text,
     original_boxes |-> successful_original_boxes]

\* a failing translation ends the loop over the groups
PipeTranslate_BreaksOnError ==
    /\ ppc = "translate"
    /\ ~IsBlank(full_japanese_text)
    /\ \E o \in TranslateOutcomes :
          /\ calls' = Append(calls, Entry("translate_japanese_to_english", group_index,
                                          NoBox, o.kind, o.text))
          /\ IF o.kind = "raises" \/ HasErrorMarker(o.text)
             THEN /\ UNCHANGED translated_data_list
                  /\ ppc' = "finish"
                  /\ UNCHANGED <<group_index, box_index, combined_japanese_text,
                                 successful_original_boxes>>
             ELSE /\ translated_data_list' = Append(translated_data_list, Unit(o.text))
                  /\ NextGroup
    /\ UNCHANGED <<gvars, fvars, rvars, xvars, original_image, bounding_boxes, grouped_boxes,
                   returned>>

\* lines 181-203: the translation of the group; the error sentinel or an
\* exception skips the group
PipeTranslate ==
    /\ ppc = "translate"
    /\ ~IsBlank(full_japanese_text)
    /\ \E o \in TranslateOutcomes :
          /\ calls' = Append(calls, Entry("translate_japanese_to_english", group_index,
                                          NoBox, o.kind, o.text))
          /\ IF o.kind = "raises" \/ HasErrorMarker(o.text)
             THEN UNCHANGED translated_data_list
             ELSE translated_data_list' = Append(translated_data_list, Unit(o.text))
          /\ NextGroup
    /\ UNCHANGED <<gvars, fvars, rvars, xvars, original_image, bounding_boxes, grouped_boxes,
                   returned>>

\* lines 205-207: nothing was translated
PipeReturnOriginal ==
    /\ ppc = "finish"
    /\ translated_data_list = <<>>
    /\ returned' = [image |-> original_image, list |-> ListOf(<<>>)]
    /\ ppc' = "done"
    /\ UNCHANGED <<gvars, fvars, rvars, xvars, original_image, bounding_boxes, grouped_boxes,
                   group_index, box_index, combined_japanese_text,
                   successful_original_boxes, translated_data_list, calls>>

\* a failing inpainting ends the pipeline with (None, None)
PipeInpaint_Aborts ==
    /\ ppc = "finish"
    /\ translated_data_list # <<>>
    /\ \E inpainted \in BOOLEAN :
          /\ calls' = Append(calls,
                 [Entry("remove_text", 0, NoBox,
                        IF inpainted THEN "value" ELSE "raises", <<>>)
                     EXCEPT !.boxes = bounding_boxes, !.padding = INPAINT_PADDING])
          /\ returned' = IF inpainted
                         THEN [image |-> "inpainted", list |-> ListOf(translated_data_list)]
                         ELSE [image |-> "None", list |-> NoneList]
    /\ ppc' = "done"
    /\ UNCHANGED <<gvars, fvars, rvars, xvars, original_image, bounding_boxes, grouped_boxes,
                   group_index, box_index, combined_japanese_text,
                   successful_original_boxes, translated_data_list>>

\* the inpainter is given the boxes in grouped order
PipeInpaint_GroupedBoxes ==
    /\ ppc = "finish"
    /\ translated_data_list # <<>>
    /\ \E inpainted \in BOOLEAN :
          /\ calls' = Append(calls,
                 [Entry("remove_text", 0, NoBox,
                        IF inpainted THEN "value" ELSE "raises", <<>>)
                     EXCEPT !.boxes = Concat(grouped_boxes), !.padding = INPAINT_PADDING])
          /\ returned' = [image |-> IF inpainted THEN "inpainted" ELSE original_image,
                          list |-> ListOf(translated_data_list)]
    /\ ppc' = "done"
    /\ UNCHANGED <<gvars, fvars, rvars, xvars, original_image, bounding_boxes, grouped_boxes,
                   group_index, box_index, combined_japanese_text,
                   successful_original_boxes, translated_data_list>>

\* lines 209-219: remove_text; an exception returns the original image with
\* the translated units
PipeInpaint ==
    /\ ppc = "finish"
    /\ translated_data_list # <<>>
    /\ \E inpainted \in BOOLEAN :
          /\ calls' = Append(calls,
                 [Entry("remove_text", 0, NoBox,
                        IF inpainted THEN "value" ELSE "raises", <<>>)
                     EXCEPT !.boxes = bounding_boxes, !.padding = INPAINT_PADDING])
          /\ returned' = [image |-> IF inpainted THEN "inpainted" ELSE original_image,
                          list |-> ListOf(translated_data_list)]
    /\ ppc' = "done"
    /\ UNCHANGED <<gvars, fvars, rvars, xvars, original_image, bounding_boxes, grouped_boxes,
                   group_index, box_index, combined_japanese_text,
                   successful_original_boxes, translated_data_list>>

PipeNext ==
    \/ PipeLoad
    \/ PipeDetect
    \/ PipeGroup
    \/ PipeOcr
    \/ PipeSkipGroup
    \/ PipeTranslate
    \/ PipeReturnOriginal
    \/ PipeInpaint

SpecPipeline == PipeInit /\ [][PipeNext]_vars


(***************************************************************************)
(* Properties of run_translation_pipeline                                  *)
(***************************************************************************)
\* the recorded calls of collaborator fn
CallsOf(fn) == SelectSeq(calls, LAMBDA c : c.fn = fn)

LoadFailed == \E k \in 1..Len(calls) : calls[k].fn = "load_image" /\ calls[k].kind = "none"

DetectRaised ==
    \E k \in 1..Len(calls) : calls[k].fn = "detect_text_regions" /\ calls[k].kind = "raises"

\* detect_text_regions has been called and has returned
DetectReturned ==
    \E k \in 1..Len(calls) : calls[k].fn = "detect_text_regions" /\ calls[k].kind = "value"

\* C18: when load_image returns None or detect_text_regions raises, the
\* pipeline returns (None, None) and makes no call to the OCR, to the
\* translator or to the inpainting, before or after.
C18_AbortsWithoutCalls ==
    (LoadFailed \/ DetectRaised) =>
        /\ ppc = "done"
        /\ returned = [image |-> "None", list |-> NoneList]
        /\ CallsOf("extract_text_from_image") = <<>>
        /\ CallsOf("translate_japanese_to_english") = <<>>
        /\ CallsOf("remove_text") = <<>>

\* the image was loaded and the detection then raised
C18_Witness ==
    /\ DetectRaised
    /\ original_image = "original"
    /\ ppc = "done"

\* the image could not be loaded
C18_WitnessLoad == LoadFailed /\ ppc = "done" /\ Len(calls) = 1

\* the recorded outcome of the OCR of box b: a set of at most one entry
OcrOf(b) ==
    { calls[k] : k \in { n \in 1..Len(calls) :
                           calls[n].fn = "extract_text_from_image" /\ calls[n].box = b } }

\* the recorded outcome of the translation of group g
TranslationOf(g) ==
    { calls[k] : k \in { n \in 1..Len(calls) :
                           calls[n].fn = "translate_japanese_to_english"
                           /\ calls[n].group = g } }

\* the OCR of box b gave a text
Extracted(b) == \E c \in OcrOf(b) : c.kind = "value" /\ ~IsBlank(c.text)

\* the translator gave group g a text that is no error message
Translated(g) == \E c \in TranslationOf(g) : c.kind = "value" /\ ~HasErrorMarker(c.text)

\* group g is neither without text nor without translation
Succeeded(g) ==
    /\ \E k \in 1..Len(grouped_boxes[g]) : Extracted(grouped_boxes[g][k])
    /\ Translated(g)

\* the unit of a group that succeeded, from the recorded outcomes
UnitOf(g) ==
    LET good == SelectSeq(grouped_boxes[g], LAMBDA b : Extracted(b))
    IN [group_box |-> get_group_bounding_box(grouped_boxes[g]),
        japanese_text |-> Join([k \in 1..Len(good) |-> (CHOOSE c \in OcrOf(good[k]) : TRUE).text],
                               " "),
        english_text |-> (CHOOSE c \in TranslationOf(g) : TRUE).text,
        original_boxes |-> good]

\* the units of the groups g, g + 1, ... that succeeded, in group order
RECURSIVE UnitsFrom(_)
UnitsFrom(g) ==
    IF g > Len(grouped_boxes) THEN <<>>
    ELSE (IF Succeeded(g) THEN <<UnitOf(g)>> ELSE <<>>) \o UnitsFrom(g + 1)

\* the loops over the groups and their boxes have ended
LoopsEnded == ppc \in {"finish", "done"} /\ grouped_boxes # <<>>

\* C19: when the loops have ended, the OCR was tried on every box of every
\* group, a translation was tried for every group with extracted text, and
\* the list holds, in group order, exactly the units of the groups that
\* have a box with text and a translation that is no error: each unit with
\* the texts and boxes of the boxes whose OCR gave text.
C19_FailuresAreSkipped ==
    LoopsEnded =>
        /\ \A g \in 1..Len(grouped_boxes) :
              /\ \A k \in 1..Len(grouped_boxes[g]) :
                    Cardinality(OcrOf(grouped_boxes[g][k])) = 1
              /\ Cardinality(TranslationOf(g)) =
                    IF \E k \in 1..Len(grouped_boxes[g]) : Extracted(grouped_boxes[g][k])
                    THEN 1 ELSE 0
        /\ translated_data_list = UnitsFrom(1)
        /\ (ppc = "done" => returned.list = ListOf(UnitsFrom(1)))

\* three groups: the OCR fails on the first, the translation on the second,
\* the third is returned
C19_Witness ==
    /\ ppc = "done"
    /\ Len(grouped_boxes) = 3
    /\ ~Extracted(grouped_boxes[1][1])
    /\ Extracted(grouped_boxes[2][1]) /\ ~Translated(2)
    /\ Len(translated_data_list) = 1
    /\ translated_data_list[1].group_box = get_group_bounding_box(grouped_boxes[3])

\* a group of two boxes is returned with the one box whose OCR gave text
C19_WitnessBox ==
    /\ ppc = "done"
    /\ \E g \in 1..Len(grouped_boxes) :
          /\ Len(grouped_boxes[g]) = 2
          /\ Succeeded(g)
          /\ ~Extracted(grouped_boxes[g][1])
          /\ translated_data_list[1].original_boxes = <<grouped_boxes[g][2]>>

\* C20: once load_image has given an image and detect_text_regions has
\* returned, a pipeline that has ended has returned an image and a list;
\* the original image with the empty list when no group succeeded, and the
\* original image with the translated units when remove_text raised.
C20_NeverAbortsThePage ==
    (ppc = "done" /\ DetectReturned) =>
        /\ returned.image \in {"original", "inpainted"}
        /\ returned.list # NoneList
        /\ (grouped_boxes # <<>> /\ \A g \in 1..Len(grouped_boxes) : ~Succeeded(g))
               => returned = [image |-> "original", list |-> ListOf(<<>>)]
        /\ (\E k \in 1..Len(calls) : calls[k].fn = "remove_text" /\ calls[k].kind = "raises")
               => returned = [image |-> "original", list |-> ListOf(translated_data_list)]
                  /\ translated_data_list # <<>>

\* remove_text raised after two groups had been translated
C20_Witness ==
    /\ ppc = "done"
    /\ \E k \in 1..Len(calls) : calls[k].fn = "remove_text" /\ calls[k].kind = "raises"
    /\ Len(translated_data_list) = 2

\* every group failed, one at the OCR and one at the translation
C20_WitnessAllFailed ==
    /\ ppc = "done"
    /\ Len(grouped_boxes) = 2
    /\ \A g \in 1..Len(grouped_boxes) : ~Succeeded(g)
    /\ CallsOf("translate_japanese_to_english") # <<>>
    /\ returned = [image |-> "original", list |-> ListOf(<<>>)]


\* text regions were detected on the page
RegionsDetected == DetectReturned /\ bounding_boxes # <<>>

\* C21 as stated: a pipeline that has ended on a page with detected regions
\* has called remove_text exactly once, with the detector's ungrouped box
\* list and the padding.
C21_InpaintsOncePerPage ==
    (ppc = "done" /\ RegionsDetected) =>
        /\ Len(CallsOf("remove_text")) = 1
        /\ CallsOf("remove_text")[1].boxes = bounding_boxes
        /\ CallsOf("remove_text")[1].padding = INPAINT_PADDING

\* C21, amended: remove_text is never called more than once; a pipeline that
\* has ended on a page with detected regions has called it once when at
\* least one group was translated and not at all when none was; the call is
\* given the detector's ungrouped box list, in the detector's order, and
\* INPAINT_PADDING.
C21_InpaintsOnceWhenTranslated ==
    /\ Len(CallsOf("remove_text")) <= 1
    /\ \A k \in 1..Len(calls) :
          calls[k].fn = "remove_text" =>
              /\ calls[k].boxes = bounding_boxes
              /\ calls[k].padding = INPAINT_PADDING
    /\ (ppc = "done" /\ RegionsDetected) =>
           Len(CallsOf("remove_text")) = IF translated_data_list # <<>> THEN 1 ELSE 0

\* two groups were translated and remove_text was called once, with a box
\* list that is not in grouped order
C21_Witness ==
    /\ ppc = "done"
    /\ Len(translated_data_list) = 2
    /\ Len(CallsOf("remove_text")) = 1
    /\ bounding_boxes # Concat(grouped_boxes)


(***************************************************************************)
(* translation_module.py: translate_japanese_to_english.  The googletrans  *)
(* Translator and the file joyo.csv are outside the model: creating the    *)
(* translator, loading the dictionary and translating each take one of     *)
(* the outcomes the code handles.  A dictionary maps a character to the    *)
(* list of its meanings.                                                   *)
(***************************************************************************)
MaxJapaneseLen == 3     \* longest japanese_text, in characters

\* two kanji, a kana and a blank
JapaneseAlphabet == {"K", "J", "h", " "}

JapaneseTexts == UNION {[1..n -> JapaneseAlphabet] : n \in 0..MaxJapaneseLen}

\* the dictionaries joyo.csv can give: none of the kanji, one, or both
Dictionaries ==
    { [c \in {} |-> <<>>],
      [c \in {"K"} |-> << <<"s", "u", "n">>, <<"d", "a", "y">> >>],
      [c \in {"K", "J"} |-> IF c = "K" THEN << <<"s", "u", "n">>, <<"d", "a", "y">> >>
                            ELSE << <<"m", "o", "o", "n">> >>] }

\* kanji_dictionary is None
NoDictionary == [is_none |-> TRUE, entries |-> [c \in {} |-> <<>>]]

Loaded(d) == [is_none |-> FALSE, entries |-> d]

\* outcomes of translator.translate(...).text
PrimaryOutcomes ==
    { [kind |-> "raises", text |-> <<>>],
      [kind |-> "none", text |-> <<>>],
      [kind |-> "value", text |-> <<>>],
      [kind |-> "value", text |-> <<" ">>],
      [kind |-> "value", text |-> <<"e">>] }

\* outcomes of initialize_translator() when translator is None
InitOutcomes ==
    { [kind |-> "translator_raises", dict |-> NoDictionary],
      [kind |-> "load_raises", dict |-> NoDictionary] }
        \cup { [kind |-> "value", dict |-> Loaded(d)] : d \in Dictionaries }

\* str.strip()
RECURSIVE lstrip(_)
lstrip(t) == IF t # <<>> /\ IsSpace(Head(t)) THEN lstrip(Tail(t)) ELSE t

strip(t) == Reverse(lstrip(Reverse(lstrip(t))))

\* "".join(fallback_translation): "[first meaning]" for a character of the
\* dictionary, the character itself otherwise
RECURSIVE Substitute(_, _)
Substitute(t, entries) ==
    IF t = <<>> THEN <<>>
    ELSE (IF Head(t) \in DOMAIN entries
          THEN <<"[">> \o entries[Head(t)][1] \o <<"]">>
          ELSE <<Head(t)>>) \o Substitute(Tail(t), entries)

\* lines 101-115: english_text after the fallback logic
WithFallback(english_text, japanese_text, dict) ==
    IF IsBlank(english_text) /\ ~dict.is_none /\ DOMAIN dict.entries # {}
    THEN LET fallback_translation == Substitute(japanese_text, dict.entries)
         IN IF strip(fallback_translation) # strip(japanese_text)
            THEN fallback_translation
            ELSE english_text
    ELSE english_text

\* "[Translation Error: ...]"
Sentinel(what) == <<ErrorMarker, ":", what, "]">>

TranslateInit ==
    /\ GroupIdle
    /\ FitIdle
    /\ RenderIdle
    /\ PipeIdle
    /\ worker = [pc |-> "idle"]
    /\ \E t \in JapaneseTexts,
          g \in {[translator |-> "None", kanji_dictionary |-> NoDictionary]}
                  \cup {[translator |-> "object", kanji_dictionary |-> Loaded(d)] :
                            d \in Dictionaries} :
          tr = [pc |-> "call", japanese_text |-> t, translator |-> g.translator,
                kanji_dictionary |-> g.kanji_dictionary,
                primary |-> "not called", english_text |-> <<>>, result |-> <<>>]

\* lines 79-88 with initialize_translator and load_kanji_dictionary: the
\* translator is created; a failure returns the sentinel
TranslateInitialize ==
    /\ tr.pc = "call"
    /\ tr.translator = "None"
    /\ \E o \in InitOutcomes :
          tr' = IF o.kind = "value"
                THEN [tr EXCEPT !.translator = "object", !.kanji_dictionary = o.dict,
                                !.pc = "check"]
                ELSE [tr EXCEPT !.pc = "done", !.result = Sentinel("init")]
    /\ UNCHANGED <<gvars, fvars, rvars, pvars, worker>>

\* line 79: the translator exists already
TranslateReady ==
    /\ tr.pc = "call"
    /\ tr.translator = "object"
    /\ tr' = [tr EXCEPT !.pc = "check"]
    /\ UNCHANGED <<gvars, fvars, rvars, pvars, worker>>

\* lines 90-91: a blank text is not translated
TranslateBlank ==
    /\ tr.pc = "check"
    /\ IsBlank(tr.japanese_text)
    /\ tr' = [tr EXCEPT !.pc = "done", !.result = <<>>]
    /\ UNCHANGED <<gvars, fvars, rvars, pvars, worker>>

\* lines 93-120: the translation, the fallback and the exception handler
TranslatePrimary ==
    /\ tr.pc = "check"
    /\ ~IsBlank(tr.japanese_text)
    /\ \E o \in PrimaryOutcomes :
          tr' = IF o.kind = "value"
                THEN [tr EXCEPT !.pc = "done", !.primary = "value",
                                !.english_text = o.text,
                                !.result = WithFallback(o.text, tr.japanese_text,
                                                        tr.kanji_dictionary)]
                ELSE [tr EXCEPT !.pc = "done", !.primary = o.kind,
                                !.result = Sentinel("x")]
    /\ UNCHANGED <<gvars, fvars, rvars, pvars, worker>>

TranslateNext ==
    \/ TranslateInitialize
    \/ TranslateReady
    \/ TranslateBlank
    \/ TranslatePrimary

SpecTranslate == TranslateInit /\ [][TranslateNext]_vars

\* C22: when the translator gave a blank string for a text that is not
\* blank, the returned text is the text with every character of the kanji
\* dictionary replaced by its first meaning and every other character kept;
\* when the translator or its initialization raised, the returned text is
\* an error sentinel.
C22_FallbackAndSentinel ==
    tr.pc = "done" =>
        /\ (tr.primary = "value" /\ IsBlank(tr.english_text)) =>
               tr.result = Substitute(tr.japanese_text, tr.kanji_dictionary.entries)
        /\ (tr.primary \in {"raises", "none"} \/ tr.translator = "None") =>
               HasErrorMarker(tr.result)


(***************************************************************************)
(* TextFitter: the long-word pass, word by word                            *)
(***************************************************************************)
\* the word with "-" and a line break after its longest proper prefix that
\* fits max_width with the hyphen; the word itself when there is none
HyphenatedAtLongestPrefix(word, max_width, f, s) ==
    LET fitting == {i \in 1..(Len(word) - 1) :
                       LineWidth(Append(SubSeq(word, 1, i), "-"), f, s) <= max_width}
    IN IF fitting = {} THEN word
       ELSE LET i == CHOOSE i \in fitting : \A k \in fitting : k <= i
            IN SubSeq(word, 1, i) \o <<"-", "\n">> \o SubSeq(word, i + 1, Len(word))

\* the text with each of its whitespace-delimited words that is too wide
\* hyphenated on its own, and everything else as it is
RECURSIVE EachWordHyphenated(_, _, _, _, _, _)
EachWordHyphenated(t, j, word, bw, f, s) ==
    LET done == IF word # <<>> /\ TooWide(word, bw, f, s)
                THEN HyphenatedAtLongestPrefix(word, bw, f, s)
                ELSE word
    IN IF j > Len(t) THEN done
       ELSE IF IsSpace(t[j])
            THEN done \o <<t[j]>> \o EachWordHyphenated(t, j + 1, <<>>, bw, f, s)
            ELSE EachWordHyphenated(t, j + 1, Append(word, t[j]), bw, f, s)

\* C23: at each size fit tries, the text that the long-word pass hands to
\* the wrapper is the original text in which every whitespace-delimited
\* word wider than 97.5% of box_width is replaced by its longest prefix
\* that fits box_width with a hyphen, the hyphen, a line break and the
\* remainder (the word as it is when no prefix fits), and every other word
\* is unchanged.
C23_EachWideWordHyphenated ==
    FitReturned =>
        \A j \in 1..Len(sizes_tried) :
            ProxyWidth(font, sizes_tried[j]) # 0 =>
                ProcessedText(text, box_width, font, sizes_tried[j], hashseed)
                    = EachWordHyphenated(text, 1, <<>>, box_width, font, sizes_tried[j])


\* the body of C24: the sizes are tried in ascending order from min_size,
\* every size up to the returned one passes the height test, the returned
\* text is the text wrapped at the returned size, and the returned size is
\* a size of min_size..max_size that is max_size unless the next size fails
\* (so that max_size is returned when every size passes)
StoppedAtFirstFailure ==
    /\ \A j \in 1..Len(sizes_tried) : sizes_tried[j] = min_size + j - 1
    /\ \A s \in min_size..best_size : SizeFits(s)
    /\ best_wrapped_text = WrappedAt(text, box_width, font, best_size, hashseed)
    /\ best_size = max_size \/ ~SizeFits(best_size + 1)
    /\ best_size \in min_size..max_size

\* C24 (as stated): fit tries the sizes in ascending order from min_size
\* and stops at the first that fails the height test: every size from
\* min_size to the returned one passes it, the returned text is the text
\* wrapped at the returned size, and the returned size is max_size or the
\* next size fails; max_size is returned when every size fits.
C24_StopsAtFirstFailureAlways ==
    (FitReturned /\ fit_exit # "zero_width") => StoppedAtFirstFailure

\* C24 (amended): the same, for the calls in which "W" is not 0 wide and
\* the text wrapped at min_size passes the height test.
C24_StopsAtFirstFailure ==
    (FitReturned /\ ProxyWidth(font, min_size) # 0 /\ SizeFits(min_size)) =>
        StoppedAtFirstFailure

C24_Witness ==
    /\ FitReturned
    /\ ProxyWidth(font, min_size) # 0
    /\ best_size > min_size
    /\ best_size < max_size
    /\ ~SizeFits(best_size + 1)
    /\ best_wrapped_text # text

\* the short word in the large box is given max_size
C24_WitnessDefaults ==
    /\ FitReturned
    /\ box_width = 400
    /\ box_height = 400
    /\ min_size = DefaultMinSize
    /\ best_size = DefaultMaxSize
    /\ fit_exit = "exhausted"


(***************************************************************************)
(* render_text: the draws and the position of the text                     *)
(***************************************************************************)
\* call p has returned after drawing
Drawn(p) == render[p].pc = "done" /\ ~NoRoom(p)

\* C25: a call of render that does not return early makes exactly 25 draws
\* of the same wrapped text at the same font size: first 24 white ones,
\* exactly one at each offset (dx, dy) of -2..2 by -2..2 other than (0, 0)
\* from the text position, then one black draw at the text position, which
\* is the last.
C25_OutlineThenText ==
    \A p \in Procs :
        LET r == render[p]
            d == r.draws
        IN /\ \A k \in 1..Len(d) :
                 /\ d[k][4] = r.wrapped_text
                 /\ d[k][5] = r.font_size
                 /\ d[k][3] = "black" => (k = 25 /\ k = Len(d) /\ r.pc = "done")
           /\ Drawn(p) =>
                 /\ Len(d) = 25
                 /\ d[25] = <<r.text_x, r.text_y, "black", r.wrapped_text, r.font_size>>
                 /\ \A k \in 1..24 : d[k][3] = "white"
                 /\ \A dx \in -2..2, dy \in -2..2 :
                       Cardinality({k \in 1..24 : /\ d[k][1] = r.text_x + dx
                                                  /\ d[k][2] = r.text_y + dy})
                           = IF dx = 0 /\ dy = 0 THEN 0 ELSE 1

C25_Witness ==
    /\ Drawn(1)
    /\ Len(render[1].draws) = 25
    /\ Len(split(render[1].wrapped_text)) >= 2
    /\ images[1] # BlankImage

\* twice the exact centred position of call p on each axis:
\* 2 * (box_center - text_size / 2)
TwiceCentred(p) ==
    LET r == render[p]
        bb == r.bounding_box
        bbox == textbbox(r.wrapped_text, font, r.font_size)
    IN << bb[1] + bb[3] - (bbox[3] - bbox[1]), bb[2] + bb[4] - (bbox[4] - bbox[2]) >>

\* v is an integer nearest to n / 2
NearestToHalf(v, n) == -1 <= 2 * v - n /\ 2 * v - n <= 1

\* C26: the text position of a call of render that draws is the centre of
\* the box minus half the measured size of the wrapped text at the fitted
\* font size, on each axis, rounded to a nearest integer.
C26_CentredPosition ==
    \A p \in Procs :
        render[p].pc \in {"outline", "done"} /\ ~NoRoom(p) =>
            /\ NearestToHalf(render[p].text_x, TwiceCentred(p)[1])
            /\ NearestToHalf(render[p].text_y, TwiceCentred(p)[2])

\* the exact position lies halfway between two pixels, left of the image
C26_Witness ==
    /\ Drawn(1)
    /\ TwiceCentred(1)[1] % 2 = 1
    /\ render[1].text_x < 0
    /\ render[1].wrapped_text # <<>>

\* the exact position is a pixel inside the box
C26_WitnessInside ==
    /\ Drawn(1)
    /\ TwiceCentred(1)[1] % 2 = 0
    /\ render[1].text_x > render[1].bounding_box[1]
    /\ render[1].text_y > render[1].bounding_box[2]
    /\ render[1].wrapped_text # <<>>


(***************************************************************************)
(* BoxGrouper: the shape of a group                                        *)
(***************************************************************************)
\* the vertical extents of boxes a and b overlap
VerticalOverlap(a, b) == a[2] < b[4] /\ b[2] < a[4]

\* C27: for boxes with y_min < y_max and y_threshold >= 0, every group is a
\* vertical stack: the y_min of each member is at least the y_max of the
\* member before it and at most that y_max plus y_threshold; so no two
\* consecutive members overlap vertically or have the same y_min, and the
\* box of the group spans from the y_min of its first member to the y_max
\* of its last.
C27_VerticalStack ==
    (gpc # "ready" /\ y_threshold >= 0) =>
        \A g \in 1..Len(groups) :
            LET group == groups[g] IN
            /\ \A j \in 2..Len(group) :
                  /\ group[j][2] >= group[j - 1][4]
                  /\ group[j][2] <= group[j - 1][4] + y_threshold
                  /\ ~VerticalOverlap(group[j - 1], group[j])
                  /\ group[j][2] # group[j - 1][2]
            /\ gpc = "boxed" =>
                  /\ group_boxes[g][2] = group[1][2]
                  /\ group_boxes[g][4] = group[Len(group)][4]

\* a stack of two with a gap, beside a box that overlaps the first and
\* begins at the same height
C27_Witness ==
    /\ gpc = "boxed"
    /\ Len(boxes) = 3
    /\ Len(groups) = 2
    /\ \E g \in 1..2 :
          /\ Len(groups[g]) = 2
          /\ groups[g][2][2] > groups[g][1][4]
          /\ group_boxes[g][4] - group_boxes[g][2] = MaxY
    /\ groups[1][1][2] = groups[2][1][2]


(***************************************************************************)
(* BoxGrouper: the order of the input                                      *)
(***************************************************************************)
\* the lists that hold the boxes of bs with two neighbours exchanged; every
\* order of the boxes is reached from bs by such exchanges
Exchanges(bs) ==
    { [bs EXCEPT ![i] = bs[i + 1], ![i + 1] = bs[i]] : i \in 1..(Len(bs) - 1) }

\* no two different boxes of the input have the same (y_min, x_min)
DistinctKeys ==
    \A i, j \in 1..Len(boxes) :
        (boxes[i][2] = boxes[j][2] /\ boxes[i][1] = boxes[j][1]) => boxes[i] = boxes[j]

\* C28 (as stated): group() gives the same sequence of groups, with the
\* same members in the same order, for every permutation of its box list:
\* for every box list, exchanging two neighbours leaves the result as it is.
C28_OrderIndependentAlways ==
    gpc = "grouped" =>
        \A perm \in Exchanges(boxes) :
            group_bounding_boxes(perm, y_threshold) = groups

\* C28 (amended): the same, for the box lists in which no two different
\* boxes have the same y_min and the same x_min.
C28_OrderIndependent ==
    (gpc = "grouped" /\ DistinctKeys) =>
        \A perm \in Exchanges(boxes) :
            group_bounding_boxes(perm, y_threshold) = groups

\* three boxes given in an order that is not the sorted one, two of them
\* equal, grouped in two groups
C28_Witness ==
    /\ gpc = "grouped"
    /\ DistinctKeys
    /\ Len(boxes) = 3
    /\ boxes[1] = boxes[3]
    /\ KeyLess(boxes[2], boxes[1])
    /\ Len(groups) = 2


(***************************************************************************)
(* TextFitter: the content of the returned text                            *)
(***************************************************************************)
\* the characters of t that are not whitespace, in order
NonSpace(t) == SelectSeq(t, LAMBDA c : ~IsSpace(c))

\* the same without the hyphens (the texts of the model have no hyphen of
\* their own: every hyphen of a result was inserted)
WithoutHyphens(t) == SelectSeq(t, LAMBDA c : c # "-")

\* C29: the characters of the text fit returns that are neither whitespace
\* nor an inserted hyphen are the non-whitespace characters of the input
\* text, in the same order.
C29_ContentPreserved ==
    FitReturned => WithoutHyphens(NonSpace(best_wrapped_text)) = NonSpace(text)

\* two words, at least one hyphenated, returned on several lines
C29_Witness ==
    /\ FitReturned
    /\ Len(split(text)) >= 2
    /\ HasHyphenBreak(best_wrapped_text)
    /\ Len(TextLines(best_wrapped_text)) >= 3


(***************************************************************************)
(* gui/translation_worker.py and gui/optimized_translation_worker.py: one  *)
(* run of a worker thread.  setup_environment, os.path.exists,             *)
(* run_translation_pipeline and the collection of the final metrics are    *)
(* outside the model: each takes one of the outcomes the code handles,     *)
(* fixed when the worker is created.  Every signal emitted is logged.      *)
(***************************************************************************)
\* what run_translation_pipeline gives: an exception, or a pair of an image
\* (or None) and a list (or None)
PipelineResults ==
    { [raises |-> TRUE, image |-> "None", data |-> "None"],
      [raises |-> FALSE, image |-> "None", data |-> "None"],
      [raises |-> FALSE, image |-> "image", data |-> "None"],
      [raises |-> FALSE, image |-> "image", data |-> "empty"],
      [raises |-> FALSE, image |-> "image", data |-> "entries"] }

WorkerInit ==
    /\ GroupIdle
    /\ FitIdle
    /\ RenderIdle
    /\ PipeIdle
    /\ tr = [pc |-> "idle"]
    /\ \E kind \in {"TranslationWorker", "PerformanceOptimizedTranslationWorker"},
          monitoring, setup_available, setup_raises, file_exists,
          pipeline_available, metrics_raise \in BOOLEAN,
          result \in PipelineResults :
          /\ kind = "TranslationWorker" => (monitoring = FALSE /\ metrics_raise = FALSE)
          /\ ~setup_available => ~setup_raises
          /\ worker = [pc |-> "created", kind |-> kind, enable_monitoring |-> monitoring,
                       is_running |-> FALSE, emitted |-> <<>>,
                       setup_available |-> setup_available, setup_raises |-> setup_raises,
                       file_exists |-> file_exists,
                       pipeline_available |-> pipeline_available,
                       result |-> result, metrics_raise |-> metrics_raise]

\* the worker after signal.emit(...)
Emit(w, signal) == [w EXCEPT !.emitted = Append(@, signal)]

\* run is entered: is_running = True and the first progress message
WorkerStart ==
    /\ worker.pc = "created"
    /\ worker' = [Emit(worker, "progress") EXCEPT !.is_running = TRUE, !.pc = "setup"]
    /\ UNCHANGED <<gvars, fvars, rvars, pvars, tr>>

\* if setup_environment: setup_environment()
WorkerSetup ==
    /\ worker.pc = "setup"
    /\ worker' = IF worker.setup_available /\ worker.setup_raises
                 THEN [worker EXCEPT !.pc = "except"]
                 ELSE [Emit(worker, "progress") EXCEPT !.pc = "check_file"]
    /\ UNCHANGED <<gvars, fvars, rvars, pvars, tr>>

\* the missing file is reported and the checks go on
WorkerCheckFile_NoReturn ==
    /\ worker.pc = "check_file"
    /\ worker' = IF ~worker.file_exists
                 THEN [Emit(worker, "error") EXCEPT !.pc = "check_pipeline"]
                 ELSE [Emit(worker, "progress") EXCEPT !.pc = "check_pipeline"]
    /\ UNCHANGED <<gvars, fvars, rvars, pvars, tr>>

\* if not os.path.exists(self.image_path): error, return
WorkerCheckFile ==
    /\ worker.pc = "check_file"
    /\ worker' = IF ~worker.file_exists
                 THEN [Emit(worker, "error") EXCEPT !.pc = "finally"]
                 ELSE [Emit(worker, "progress") EXCEPT !.pc = "check_pipeline"]
    /\ UNCHANGED <<gvars, fvars, rvars, pvars, tr>>

\* if not run_translation_pipeline: error, return
WorkerCheckPipeline ==
    /\ worker.pc = "check_pipeline"
    /\ worker' = IF ~worker.pipeline_available
                 THEN [Emit(worker, "error") EXCEPT !.pc = "finally"]
                 ELSE [worker EXCEPT !.pc = "pipeline"]
    /\ UNCHANGED <<gvars, fvars, rvars, pvars, tr>>

\* the call of run_translation_pipeline and the two tests of its result
WorkerPipeline ==
    /\ worker.pc = "pipeline"
    /\ worker' = IF worker.result.raises THEN [worker EXCEPT !.pc = "except"]
                 ELSE IF worker.result.data = "None"
                      THEN [Emit(worker, "error") EXCEPT !.pc = "finally"]
                      ELSE [worker EXCEPT !.pc = "success"]
    /\ UNCHANGED <<gvars, fvars, rvars, pvars, tr>>

\* the last progress message, the final metrics of the optimized worker,
\* and finished
WorkerSuccess ==
    /\ worker.pc = "success"
    /\ worker' = IF worker.kind = "PerformanceOptimizedTranslationWorker"
                    /\ worker.metrics_raise
                 THEN [Emit(worker, "progress") EXCEPT !.pc = "except"]
                 ELSE [Emit(Emit(worker, "progress"), "finished") EXCEPT !.pc = "finally"]
    /\ UNCHANGED <<gvars, fvars, rvars, pvars, tr>>

\* except Exception as e: error
WorkerExcept ==
    /\ worker.pc = "except"
    /\ worker' = [Emit(worker, "error") EXCEPT !.pc = "finally"]
    /\ UNCHANGED <<gvars, fvars, rvars, pvars, tr>>

\* finally: is_running = False, and the performance report of a monitored
\* optimized worker; run returns
WorkerFinally ==
    /\ worker.pc = "finally"
    /\ worker' = [(IF worker.enable_monitoring
                   THEN Emit(worker, "performance_update") ELSE worker)
                     EXCEPT !.is_running = FALSE, !.pc = "returned"]
    /\ UNCHANGED <<gvars, fvars, rvars, pvars, tr>>

\* stop() from the GUI thread while run is under way: is_running = False
\* and the thread is terminated where it stands
WorkerStop ==
    /\ worker.pc \notin {"idle", "created", "returned", "terminated"}
    /\ worker' = [worker EXCEPT !.is_running = FALSE, !.pc = "terminated"]
    /\ UNCHANGED <<gvars, fvars, rvars, pvars, tr>>

WorkerNext ==
    \/ WorkerStart
    \/ WorkerSetup
    \/ WorkerCheckFile
    \/ WorkerCheckPipeline
    \/ WorkerPipeline
    \/ WorkerSuccess
    \/ WorkerExcept
    \/ WorkerFinally
    \/ WorkerStop

SpecWorker == WorkerInit /\ [][WorkerNext]_vars

\* the terminal signals the run has emitted, in order
TerminalSignals == SelectSeq(worker.emitted, LAMBDA g : g \in {"finished", "error"})

\* the run came to its end without stop()
WorkerReturned == worker.pc = "returned"

\* C30: a run of either worker that stop() does not kill emits exactly one
\* terminal signal, finished or error, on every path, never more than one at
\* any moment, and is_running is False once run has returned.
C30_OneTerminalSignal ==
    worker.pc # "idle" =>
        /\ Len(TerminalSignals) <= 1
        /\ WorkerReturned =>
              /\ Len(TerminalSignals) = 1
              /\ worker.is_running = FALSE

\* the optimized worker, monitored: the pipeline gave a result and the
\* final metrics raised, so that error is the one terminal signal
C30_Witness ==
    /\ WorkerReturned
    /\ worker.kind = "PerformanceOptimizedTranslationWorker"
    /\ worker.enable_monitoring
    /\ worker.result.data = "entries"
    /\ worker.metrics_raise
    /\ TerminalSignals = <<"error">>

\* the plain worker on the success path
C30_WitnessFinished ==
    /\ WorkerReturned
    /\ worker.kind = "TranslationWorker"
    /\ TerminalSignals = <<"finished">>
    /\ worker.emitted[Len(worker.emitted)] = "finished"

====
